---------------------------- MODULE Spec2Model ----------------------------
(***************************************************************************)
(* The copick object model (src/src/copick/models.py): the lazily loaded,  *)
(* cached entity tree Root -> Run -> {VoxelSpacing -> Tomogram ->          *)
(* Features, Picks, Mesh, Segmentation}, its lookup and creation           *)
(* operations, and the storage backend they call.                          *)
(*                                                                         *)
(* One CopickRoot, one CopickRun of it, one CopickVoxelSpacing and one     *)
(* CopickTomogram are modelled, each with its child caches.  A Python      *)
(* Optional[List] is the record [some, list]: None is [some |-> FALSE],    *)
(* a list l is [some |-> TRUE, list |-> l].  A Python object is a record   *)
(* [cls, parent, meta, id]: cls is its class, parent the object its back-  *)
(* reference (root, run, voxel_spacing, tomogram) points to, meta its      *)
(* metadata record, id its identity (two objects are the same object       *)
(* exactly when their ids are equal).                                      *)
(***************************************************************************)
EXTENDS Integers, Sequences, FiniteSets, TLC

\* ------------------------------------------------------------------ bounds

\* Objects constructed per collection in one behaviour, by creations, lookups
\* and queries.
MaxId == 2

\* The labels PickableObjects are constructed with: -MaxLabel..MaxLabel.
MaxLabel == 2

\* The longest color a PickableObject is constructed with.
MaxColorLen == 5

\* ------------------------------------------------------------ value domains

\* Python's None where a str is optional (user_id, session_id, filters).
NoneStr == "None"

\* Optional[List]: None and a list.
None == [some |-> FALSE, list |-> <<>>]

Some(l) == [some |-> TRUE, list |-> l]

\* Names of config.pickable_objects.
pickable_objects == {"ribosome"}

\* Names a caller passes as object_name / name.
Names == {"ribosome", "membrane"}

UserIds == {"alice", "bob"}

SessionIds == {"0", "1"}

\* Voxel sizes, in thousandths of an angstrom.
VoxelSizes == {10000, 20000}

RunNames == {"TS_001", "TS_002"}

TomoTypes == {"wbp", "denoised"}

FeatureTypes == {"sobel", "edges"}

\* The tomo_type of the modelled CopickTomogram.
tomo_type == "wbp"

Collections ==
    {"runs", "voxel_spacings", "picks", "meshes", "segmentations", "tomograms", "features"}

\* --------------------------------------------------------- metadata records

CopickRunMeta == [name : RunNames]

CopickVoxelSpacingMeta == [voxel_size : VoxelSizes]

CopickTomogramMeta == [tomo_type : TomoTypes]

CopickFeaturesMeta == [tomo_type : {tomo_type}, feature_type : FeatureTypes]

CopickPicksFile ==
    [pickable_object_name : Names, user_id : UserIds, session_id : SessionIds]

CopickMeshMeta ==
    [pickable_object_name : Names, user_id : UserIds, session_id : SessionIds]

CopickSegmentationMeta ==
    [user_id : UserIds, session_id : SessionIds, name : Names,
     is_multilabel : BOOLEAN, voxel_size : VoxelSizes]

MetaOf(c) ==
    CASE c = "runs" -> CopickRunMeta
      [] c = "voxel_spacings" -> CopickVoxelSpacingMeta
      [] c = "picks" -> CopickPicksFile
      [] c = "meshes" -> CopickMeshMeta
      [] c = "segmentations" -> CopickSegmentationMeta
      [] c = "tomograms" -> CopickTomogramMeta
      [] c = "features" -> CopickFeaturesMeta

\* ------------------------------------------------------------------ objects

\* The class of the children of collection c as models.py defines it.
BaseClass(c) ==
    CASE c = "runs" -> [name |-> "CopickRun", impl |-> FALSE]
      [] c = "voxel_spacings" -> [name |-> "CopickVoxelSpacing", impl |-> FALSE]
      [] c = "picks" -> [name |-> "CopickPicks", impl |-> FALSE]
      [] c = "meshes" -> [name |-> "CopickMesh", impl |-> FALSE]
      [] c = "segmentations" -> [name |-> "CopickSegmentation", impl |-> FALSE]
      [] c = "tomograms" -> [name |-> "CopickTomogram", impl |-> FALSE]
      [] c = "features" -> [name |-> "CopickFeatures", impl |-> FALSE]

\* The class that the parent's _<child>_factory() returns in a backend
\* implementation, which overrides the factory with its own subclass; the
\* implementation's query_<children>() builds objects of this class too.
factory(c) == [BaseClass(c) EXCEPT !.impl = TRUE]

\* The parent ("self" in the parent's methods) of the children of collection c.
Parent(c) ==
    CASE c = "runs" -> "root"
      [] c \in {"voxel_spacings", "picks", "meshes", "segmentations"} -> "run"
      [] c = "tomograms" -> "voxel_spacing"
      [] c = "features" -> "tomogram"

\* clz(parent, meta): a newly constructed object.
Construct(cls, parent, meta, id) ==
    [cls |-> cls, parent |-> parent, meta |-> meta, id |-> id]

\* ------------------------------------------------------------------- state

VARIABLES
    scope,             \* the child collections the caller operates on in this behaviour
    config_user_id,    \* root.config.user_id (NoneStr when unset)
    _runs,             \* CopickRoot._runs
    _voxel_spacings,   \* CopickRun._voxel_spacings
    _picks,            \* CopickRun._picks
    _meshes,           \* CopickRun._meshes
    _segmentations,    \* CopickRun._segmentations
    _tomograms,        \* CopickVoxelSpacing._tomograms
    _features,         \* CopickTomogram._features
    _objects,          \* CopickRoot._objects
    backend,           \* per collection, the metadata records the storage backend holds
    nextId,            \* per collection, the number of objects constructed so far
    transformation_,   \* CopickPoint.transformation_ of the Point
    artifact,          \* per object id, CopickPicks.meta.points and CopickMesh._mesh
    threads,           \* per thread calling into one Root, its call and its position in it
    trace,             \* backend calls and cache appends of the last operation, in order
    last               \* the last operation: [op, args, result, ret]

vars ==
    <<scope, config_user_id, _runs, _voxel_spacings, _picks, _meshes, _segmentations,
      _tomograms, _features, _objects, backend, nextId, transformation_, artifact,
      threads, trace, last>>

\* The state of the value objects and of the artifacts, which the operations
\* of the tree other than new_mesh leave alone.
valueVars == <<transformation_, artifact, threads>>

\* Two threads of one process calling into the same Root.
Threads == {1, 2}

\* A thread that has made no call: the operation and argument of its call, its
\* position in the code, the list its query returned, the value the runs
\* property returned to it, and how its call ended.
Idle ==
    [op |-> "none", name |-> "none", at |-> "idle", local |-> <<>>, ret |-> None,
     result |-> "none"]

\* The state of the tree, which the operations on value objects leave alone.
treeVars ==
    <<scope, config_user_id, _runs, _voxel_spacings, _picks, _meshes, _segmentations,
      _tomograms, _features, _objects, backend, nextId>>

Cache(c) ==
    CASE c = "runs" -> _runs
      [] c = "voxel_spacings" -> _voxel_spacings
      [] c = "picks" -> _picks
      [] c = "meshes" -> _meshes
      [] c = "segmentations" -> _segmentations
      [] c = "tomograms" -> _tomograms
      [] c = "features" -> _features

\* Assignment of the caches of the collections in DOMAIN f; every other cache
\* is left alone.
SetCaches(f) ==
    /\ _runs' = IF "runs" \in DOMAIN f THEN f["runs"] ELSE _runs
    /\ _voxel_spacings' =
           IF "voxel_spacings" \in DOMAIN f THEN f["voxel_spacings"] ELSE _voxel_spacings
    /\ _picks' = IF "picks" \in DOMAIN f THEN f["picks"] ELSE _picks
    /\ _meshes' = IF "meshes" \in DOMAIN f THEN f["meshes"] ELSE _meshes
    /\ _segmentations' =
           IF "segmentations" \in DOMAIN f THEN f["segmentations"] ELSE _segmentations
    /\ _tomograms' = IF "tomograms" \in DOMAIN f THEN f["tomograms"] ELSE _tomograms
    /\ _features' = IF "features" \in DOMAIN f THEN f["features"] ELSE _features

\* ----------------------------------------------------------------- backend
\* The storage backend behind the abstract operations (query_*, ensure, store,
\* zarr).  backend[c] lists, in the backend's own order and without
\* duplicates, the metadata records it holds for collection c.

\* What a persistence call (ensure(create=True), store(), zarr()) may do.
PersistOutcomes == {"ok", "raise"}

\* What ensure(create=False) may do: answer, or raise.
EnsureOutcomes == {"answer", "raise"}

QueryName(c) ==
    CASE c = "runs" -> "query"
      [] c = "voxel_spacings" -> "query_voxelspacings"
      [] c = "picks" -> "query_picks"
      [] c = "meshes" -> "query_meshes"
      [] c = "segmentations" -> "query_segmentations"
      [] c = "tomograms" -> "query_tomograms"
      [] c = "features" -> "query_features"

\* The persistence call of a new entity of collection c.
PersistName(c) ==
    CASE c \in {"runs", "voxel_spacings"} -> "ensure(create=True)"
      [] c \in {"picks", "meshes"} -> "store"
      [] c \in {"segmentations", "tomograms", "features"} -> "zarr"

\* query_<children>(): one newly constructed object per record the backend
\* holds.
query(c) ==
    [i \in 1..Len(backend[c]) |->
        Construct(factory(c), Parent(c), backend[c][i], nextId[c] + i)]

Holds(c, meta) == \E i \in 1..Len(backend[c]) : backend[c][i] = meta

\* The backend after the record of a new entity was persisted (idempotent).
Persisted(c, meta) ==
    IF Holds(c, meta) THEN backend
    ELSE [backend EXCEPT ![c] = Append(@, meta)]

\* ------------------------------------------------- the lazy child collection

\* The children property initialising an unpopulated cache to the empty list
\* without a query.
LazyGet_init_empty(c, q) ==
    IF Cache(c).some
    THEN [cache |-> Cache(c), calls |-> <<>>, raised |-> FALSE, used |-> 0]
    ELSE [cache |-> Some(<<>>), calls |-> <<>>, raised |-> FALSE, used |-> 0]

\* The children property with "if not self._x" in place of "if self._x is None":
\* an empty list is queried again.
LazyGet_falsy(c, q) ==
    IF Cache(c).some /\ Cache(c).list # <<>>
    THEN [cache |-> Cache(c), calls |-> <<>>, raised |-> FALSE, used |-> 0]
    ELSE IF q = "raise"
    THEN [cache |-> Cache(c), calls |-> <<QueryName(c)>>, raised |-> TRUE, used |-> 0]
    ELSE [cache |-> Some(query(c)), calls |-> <<QueryName(c)>>,
          raised |-> FALSE, used |-> Len(backend[c])]

\* The children property: "if self._x is None: self._x = self.query_x()",
\* then "return self._x".  The result: the cache afterwards, the backend
\* calls made, whether the query raised, and the objects it constructed.
LazyGet(c, q) ==
    IF Cache(c).some
    THEN [cache |-> Cache(c), calls |-> <<>>, raised |-> FALSE, used |-> 0]
    ELSE IF q = "raise"
    THEN [cache |-> Cache(c), calls |-> <<QueryName(c)>>, raised |-> TRUE, used |-> 0]
    ELSE IF q = "return None"
    THEN [cache |-> None, calls |-> <<QueryName(c)>>, raised |-> FALSE, used |-> 0]
    ELSE [cache |-> Some(query(c)), calls |-> <<QueryName(c)>>,
          raised |-> FALSE, used |-> Len(backend[c])]

\* "if self._x is None: self._x = []" and "self._x.append(entity)".
AppendOnCreate(cache, entity) ==
    IF ~cache.some THEN Some(<<entity>>) ELSE Some(Append(cache.list, entity))

NoArgs == [none |-> TRUE]

\* The four child collections of a Run, in the order Run.refresh takes them.
RunOrder == <<"voxel_spacings", "picks", "meshes", "segmentations">>

\* A caller operating on all four collections of one Run, and the operations
\* it uses there.
RunScope == {RunOrder[i] : i \in 1..Len(RunOrder)}

RunScopeOps ==
    {"CopickRun.refresh", "picks", "segmentations", "new_picks", "color",
     "user_picks", "tool_picks", "user_meshes", "tool_meshes", "user_segmentations",
     "tool_segmentations"}

\* The constructor returned: the object exists and can be operated on (a
\* constructor that raised leaves no object).
Constructed ==
    last.op \in {"CopickRoot.__init__", "CopickRun.__init__"} => last.result = "ok"

\* Optional[bool] and Optional[float]: None is <<>>, a value v is <<v>>.
NoneVal == <<>>

Val(v) == <<v>>

\* The collections whose entities hold an artifact.
Artifacts == {"picks", "meshes"}

\* new_mesh: "mesh = clz(run=self, meta=mm, mesh=scene)", scene an empty
\* geometry: the Mesh constructed before the append holds the value.
Supplied(r) ==
    IF \E k \in 1..Len(r.calls) : r.calls[k] = "append"
    THEN [artifact EXCEPT !["meshes"][nextId["meshes"] + r.used["meshes"]] = Val("empty")]
    ELSE artifact

\* The state after an operation on collection c whose outcome is r: the caches
\* it assigned, the backend, the objects it constructed, its calls and result.
\* A caller working on the whole Run uses the operations of RunScopeOps; on a
\* Root of the base class the runs are read and refreshed.
Effect(c, op, args, r) ==
    /\ Constructed
    /\ c \in scope
    /\ scope = RunScope => op \in RunScopeOps
    /\ "base" \in scope => op \in {"runs", "CopickRoot.refresh"}
    /\ \A d \in DOMAIN r.used : nextId[d] + r.used[d] <= MaxId
    /\ SetCaches(r.caches)
    /\ backend' = r.backend
    /\ nextId' = [d \in Collections |->
                     IF d \in DOMAIN r.used THEN nextId[d] + r.used[d] ELSE nextId[d]]
    /\ trace' = r.calls
    /\ last' = [op |-> op, args |-> args, result |-> r.result, ret |-> r.ret]
    /\ artifact' = IF op = "new_mesh" THEN Supplied(r) ELSE artifact
    /\ UNCHANGED <<scope, config_user_id, _objects, transformation_, threads>>

\* A read of the children property of collection c.
Property(c, q) ==
    LET g == LazyGet(c, q) IN
    Effect(c, c, NoArgs,
           [caches |-> c :> g.cache, calls |-> g.calls, used |-> c :> g.used,
            backend |-> backend,
            result |-> IF g.raised THEN "raise" ELSE "ok",
            ret |-> g.cache.list])

runs(q) == Property("runs", q)

voxel_spacings(q) == Property("voxel_spacings", q)

picks(q) == Property("picks", q)

meshes(q) == Property("meshes", q)

segmentations(q) == Property("segmentations", q)

tomograms(q) == Property("tomograms", q)

features(q) == Property("features", q)

\* refresh_<children>() leaving a populated cache alone.
Refresh_lazy(c, op, q) ==
    Effect(c, op, NoArgs,
           IF Cache(c).some
           THEN [caches |-> c :> Cache(c), calls |-> <<>>, used |-> c :> 0,
                 backend |-> backend, result |-> "ok", ret |-> <<>>]
           ELSE IF q = "raise"
           THEN [caches |-> c :> Cache(c), calls |-> <<QueryName(c)>>, used |-> c :> 0,
                 backend |-> backend, result |-> "raise", ret |-> <<>>]
           ELSE [caches |-> c :> Some(query(c)), calls |-> <<QueryName(c)>>,
                 used |-> c :> Len(backend[c]), backend |-> backend, result |-> "ok",
                 ret |-> <<>>])

\* refresh_<children>(): "self._x = self.query_x()", whatever the cache holds.
Refresh(c, op, q) ==
    Effect(c, op, NoArgs,
           IF q = "raise"
           THEN [caches |-> c :> Cache(c), calls |-> <<QueryName(c)>>, used |-> c :> 0,
                 backend |-> backend, result |-> "raise", ret |-> <<>>]
           ELSE IF q = "return None"
           THEN [caches |-> c :> None, calls |-> <<QueryName(c)>>, used |-> c :> 0,
                 backend |-> backend, result |-> "ok", ret |-> <<>>]
           ELSE [caches |-> c :> Some(query(c)), calls |-> <<QueryName(c)>>,
                 used |-> c :> Len(backend[c]), backend |-> backend, result |-> "ok",
                 ret |-> <<>>])

CopickRoot_refresh(q) == Refresh("runs", "CopickRoot.refresh", q)

\* CopickRun.refresh with every refresh_<children> skipping a populated cache.
CopickRun_refresh_outcome_lazy(f) ==
    LET n == IF f = 0 THEN Len(RunOrder) ELSE f
        asked == {i \in 1..n : ~Cache(RunOrder[i]).some}
        done == {RunOrder[i] : i \in {j \in asked : f = 0 \/ j < f}}
    IN  [caches |-> [c \in done |-> Some(query(c))],
         calls |-> [i \in 1..Cardinality(asked) |->
                       QueryName(RunOrder[CHOOSE j \in asked :
                                     Cardinality({l \in asked : l < j}) = i - 1])],
         used |-> [c \in done |-> Len(backend[c])],
         backend |-> backend,
         result |-> IF f = 0 THEN "ok" ELSE "raise",
         ret |-> <<>>]

\* CopickRun.refresh: refresh_voxel_spacings, refresh_picks, refresh_meshes,
\* refresh_segmentations, one after the other.  f = 0: every query returns;
\* otherwise the f-th query raises and the refresh ends there, the caches
\* before it replaced and the others as they were.
CopickRun_refresh_outcome(f) ==
    LET n == IF f = 0 THEN Len(RunOrder) ELSE f
        done == {RunOrder[i] : i \in {j \in 1..n : f = 0 \/ j < f}}
    IN  [caches |-> [c \in done |-> Some(query(c))],
         calls |-> [i \in 1..n |-> QueryName(RunOrder[i])],
         used |-> [c \in done |-> Len(backend[c])],
         backend |-> backend,
         result |-> IF f = 0 THEN "ok" ELSE "raise",
         ret |-> <<>>]

CopickRun_refresh(f) ==
    /\ scope = RunScope
    /\ Effect("picks", "CopickRun.refresh", NoArgs, CopickRun_refresh_outcome(f))

refresh_voxel_spacings(q) == Refresh("voxel_spacings", "refresh_voxel_spacings", q)

refresh_picks(q) == Refresh("picks", "refresh_picks", q)

refresh_meshes(q) == Refresh("meshes", "refresh_meshes", q)

refresh_segmentations(q) == Refresh("segmentations", "refresh_segmentations", q)

refresh_tomograms(q) == Refresh("tomograms", "refresh_tomograms", q)

refresh_features(q) == Refresh("features", "refresh_features", q)


\* ------------------------------------------------------ outcomes of handlers

\* No cache assigned.
Untouched == [c \in {} |-> None]

\* No object constructed.
NoneUsed == [c \in {} |-> 0]

\* The handler raised before any backend call and before any assignment.
Raise(result) ==
    [caches |-> Untouched, calls |-> <<>>, used |-> NoneUsed, backend |-> backend,
     result |-> result, ret |-> <<>>]

\* The handler stopped after the lazy read g of collection c: with the query's
\* own exception, or with the error `result` raised after a successful read.
After(c, g, result) ==
    [caches |-> c :> g.cache, calls |-> g.calls, used |-> c :> g.used,
     backend |-> backend,
     result |-> IF g.raised THEN "raise" ELSE result, ret |-> <<>>]

\* The tail of a creation operation returning a second instance constructed
\* from the same metadata instead of the appended one.
Create_detached(c, g, meta, p) ==
    LET entity == Construct(factory(c), Parent(c), meta, nextId[c] + g.used + 1) IN
    [caches |-> c :> AppendOnCreate(g.cache, entity),
     calls |-> g.calls \o <<"append", PersistName(c)>>,
     used |-> c :> (g.used + 2),
     backend |-> IF p = "ok" THEN Persisted(c, meta) ELSE backend,
     result |-> IF p = "ok" THEN "ok" ELSE "raise",
     ret |-> IF p = "ok"
             THEN <<Construct(factory(c), Parent(c), meta, nextId[c] + g.used + 2)>>
             ELSE <<>>]

\* The tail of every creation operation, after the lazy read g of collection c:
\* construct the entity, "if self._x is None: self._x = []",
\* "self._x.append(entity)", then the persistence call, then "return entity".
\* When the persistence call raises, the handler ends there.
Create(c, g, meta, p) ==
    LET entity == Construct(factory(c), Parent(c), meta, nextId[c] + g.used + 1) IN
    [caches |-> c :> AppendOnCreate(g.cache, entity),
     calls |-> g.calls \o <<"append", PersistName(c)>>,
     used |-> c :> (g.used + 1),
     backend |-> IF p = "ok" THEN Persisted(c, meta) ELSE backend,
     result |-> IF p = "ok" THEN "ok" ELSE "raise",
     ret |-> IF p = "ok" THEN <<entity>> ELSE <<>>]

\* The configured user id taking precedence over the argument.
resolve_uid_config_first(user_id) ==
    IF config_user_id # NoneStr THEN config_user_id ELSE user_id

\* "uid = self.root.config.user_id; if user_id is not None: uid = user_id".
resolve_uid(user_id) == IF user_id # NoneStr THEN user_id ELSE config_user_id

\* ------------------------------------------------------- CopickRun: picks

\* get_picks / get_meshes without the session_id filter.
filter_picks_no_session(list, object_name, user_id, session_id) ==
    SelectSeq(list, LAMBDA x :
        /\ object_name # NoneStr => x.meta.pickable_object_name = object_name
        /\ user_id # NoneStr => x.meta.user_id = user_id)

\* The three filters of get_picks / get_meshes, applied in the source's order;
\* a filter that is None is skipped.
filter_picks(list, object_name, user_id, session_id) ==
    LET r1 == IF object_name # NoneStr
              THEN SelectSeq(list, LAMBDA x : x.meta.pickable_object_name = object_name)
              ELSE list
        r2 == IF user_id # NoneStr
              THEN SelectSeq(r1, LAMBDA x : x.meta.user_id = user_id)
              ELSE r1
    IN  IF session_id # NoneStr
        THEN SelectSeq(r2, LAMBDA x : x.meta.session_id = session_id)
        ELSE r2

get_filtered(c, op, object_name, user_id, session_id, q) ==
    LET g == LazyGet(c, q) IN
    Effect(c, op,
           [object_name |-> object_name, user_id |-> user_id, session_id |-> session_id],
           [caches |-> c :> g.cache, calls |-> g.calls, used |-> c :> g.used,
            backend |-> backend,
            result |-> IF g.raised THEN "raise" ELSE "ok",
            ret |-> IF g.raised THEN <<>>
                    ELSE filter_picks(g.cache.list, object_name, user_id, session_id)])

get_picks(object_name, user_id, session_id, q) ==
    get_filtered("picks", "get_picks", object_name, user_id, session_id, q)

get_meshes(object_name, user_id, session_id, q) ==
    get_filtered("meshes", "get_meshes", object_name, user_id, session_id, q)

\* new_picks / new_mesh with the user id resolved before the object name is
\* checked.
new_annotation_uid_first(c, object_name, session_id, user_id, q, p) ==
    LET uid == resolve_uid(user_id) IN
    IF uid = NoneStr
    THEN Raise("ValueError: user id must be set")
    ELSE IF object_name \notin pickable_objects
    THEN Raise("ValueError: object name not found")
    ELSE LET g == LazyGet(c, q) IN
         IF g.raised \/ filter_picks(g.cache.list, object_name, uid, session_id) # <<>>
         THEN After(c, g, "ValueError: already exist")
         ELSE Create(c, g,
                     [pickable_object_name |-> object_name, user_id |-> uid,
                      session_id |-> session_id], p)

\* new_picks / new_mesh without the uniqueness check.
new_annotation_nocheck(c, object_name, session_id, user_id, q, p) ==
    IF object_name \notin pickable_objects
    THEN Raise("ValueError: object name not found")
    ELSE LET uid == resolve_uid(user_id) IN
         IF uid = NoneStr
         THEN Raise("ValueError: user id must be set")
         ELSE LET g == LazyGet(c, q) IN
              IF g.raised
              THEN After(c, g, "raise")
              ELSE Create(c, g,
                          [pickable_object_name |-> object_name, user_id |-> uid,
                           session_id |-> session_id], p)

\* new_picks / new_mesh taking the uniqueness check to the backend's listing
\* as it is at the time of the call.
new_annotation_asks_backend(c, object_name, session_id, user_id, q, p) ==
    IF object_name \notin pickable_objects
    THEN Raise("ValueError: object name not found")
    ELSE LET uid == resolve_uid(user_id) IN
         IF uid = NoneStr
         THEN Raise("ValueError: user id must be set")
         ELSE LET g == LazyGet(c, q) IN
              IF g.raised
                 \/ filter_picks(g.cache.list, object_name, uid, session_id) # <<>>
                 \/ Holds(c, [pickable_object_name |-> object_name, user_id |-> uid,
                              session_id |-> session_id])
              THEN After(c, g, "ValueError: already exist")
              ELSE Create(c, g,
                          [pickable_object_name |-> object_name, user_id |-> uid,
                           session_id |-> session_id], p)

\* new_picks and new_mesh: the object name check, the user id, the uniqueness
\* check through get_picks / get_meshes, then the creation.
new_annotation(c, object_name, session_id, user_id, q, p) ==
    IF object_name \notin pickable_objects
    THEN Raise("ValueError: object name not found")
    ELSE LET uid == resolve_uid(user_id) IN
         IF uid = NoneStr
         THEN Raise("ValueError: user id must be set")
         ELSE LET g == LazyGet(c, q) IN
              IF g.raised \/ filter_picks(g.cache.list, object_name, uid, session_id) # <<>>
              THEN After(c, g, "ValueError: already exist")
              ELSE Create(c, g,
                          [pickable_object_name |-> object_name, user_id |-> uid,
                           session_id |-> session_id], p)

new_picks(object_name, session_id, user_id, q, p) ==
    Effect("picks", "new_picks",
           [object_name |-> object_name, session_id |-> session_id, user_id |-> user_id],
           new_annotation("picks", object_name, session_id, user_id, q, p))

new_mesh(object_name, session_id, user_id, q, p) ==
    Effect("meshes", "new_mesh",
           [object_name |-> object_name, session_id |-> session_id, user_id |-> user_id],
           new_annotation("meshes", object_name, session_id, user_id, q, p))

\* ------------------------------------ CopickPicks.points, CopickMesh.mesh
\* artifact[c][id] is meta.points of the Picks, _mesh of the Mesh with that
\* id: NoneVal (None) or Val(v), v "empty" (an empty point list, an empty
\* geometry) or "data".

\* The caller holds the entity at index i of the populated cache of
\* collection c.
Entity(c, i) ==
    /\ Constructed
    /\ scope = {c}
    /\ Cache(c).some
    /\ i \in 1..Len(Cache(c).list)

\* The outcome of an operation on the artifact of that entity.
ArtifactEffect(c, i, op, args, calls, result, ret, value) ==
    /\ artifact' = [artifact EXCEPT ![c][Cache(c).list[i].id] = value]
    /\ trace' = calls
    /\ last' = [op |-> op, args |-> args, result |-> result, ret |-> ret]
    /\ UNCHANGED <<treeVars, transformation_, threads>>

\* The outcomes of _load: it raises, or returns the stored artifact (for a
\* Picks, a file whose points may be None).
LoadOutcomes(c) ==
    {[raised |-> TRUE, value |-> NoneVal]}
        \cup {[raised |-> FALSE, value |-> v] :
               v \in {Val("empty"), Val("data")}
                         \cup (IF c = "picks" THEN {NoneVal} ELSE {})}

\* The read loading also when the value is an empty list or geometry.
artifact_read_falsy(c, i, l) ==
    /\ Entity(c, i)
    /\ LET value == artifact[c][Cache(c).list[i].id]
           op == IF c = "picks" THEN "CopickPicks.points" ELSE "CopickMesh.mesh"
       IN IF value \notin {NoneVal, Val("empty")}
       THEN ArtifactEffect(c, i, op, [id |-> Cache(c).list[i].id], <<>>, "ok", value, value)
       ELSE ArtifactEffect(c, i, op, [id |-> Cache(c).list[i].id], <<"_load">>,
                           IF l.raised THEN "raise" ELSE "ok", l.value,
                           IF l.raised THEN value ELSE l.value)

\* The properties points and mesh: "if self.meta.points is None: self.meta =
\* self.load()", "if self._mesh is None: self._mesh = self.load()", then the
\* value is returned.  l is the outcome of _load when it is called.
artifact_read(c, i, l) ==
    /\ Entity(c, i)
    /\ LET value == artifact[c][Cache(c).list[i].id]
           op == IF c = "picks" THEN "CopickPicks.points" ELSE "CopickMesh.mesh"
       IN IF value # NoneVal
       THEN ArtifactEffect(c, i, op, [id |-> Cache(c).list[i].id], <<>>, "ok", value, value)
       ELSE ArtifactEffect(c, i, op, [id |-> Cache(c).list[i].id], <<"_load">>,
                           IF l.raised THEN "raise" ELSE "ok", l.value,
                           IF l.raised THEN value ELSE l.value)

\* The setters of points and mesh: the value is stored.
artifact_setter(c, i, value) ==
    /\ Entity(c, i)
    /\ ArtifactEffect(c, i,
                   IF c = "picks" THEN "CopickPicks.points.setter"
                   ELSE "CopickMesh.mesh.setter",
                   [id |-> Cache(c).list[i].id, value |-> value], <<>>, "ok", NoneVal, value)

\* CopickPicks.refresh, CopickMesh.refresh: the value is loaded again.
artifact_refresh(c, i, l) ==
    /\ Entity(c, i)
    /\ ArtifactEffect(c, i,
                   IF c = "picks" THEN "CopickPicks.refresh" ELSE "CopickMesh.refresh",
                   [id |-> Cache(c).list[i].id], <<"_load">>,
                   IF l.raised THEN "raise" ELSE "ok", NoneVal,
                   IF l.raised THEN artifact[c][Cache(c).list[i].id] ELSE l.value)

\* ------------------------------------------- keyed children (one-field key)

\* The scan answering with the head of the list when no entity has the key.
first_match_or_head(list, field, value) ==
    LET hits == SelectSeq(list, LAMBDA x : x.meta[field] = value) IN
    IF hits # <<>> THEN <<Head(hits)>>
    ELSE IF list # <<>> THEN <<Head(list)>> ELSE <<>>

\* The scan of get_run, get_voxel_spacing, get_tomogram and get_features:
\* the first entity of the list whose key field equals the value, else None.
first_match(list, field, value) ==
    LET hits == SelectSeq(list, LAMBDA x : x.meta[field] = value) IN
    IF hits = <<>> THEN <<>> ELSE <<Head(hits)>>

\* The creation without its uniqueness check.
new_keyed_nocheck(c, field, meta, q, p) ==
    LET g == LazyGet(c, q) IN
    IF g.raised THEN After(c, g, "raise") ELSE Create(c, g, meta, p)

\* The creation with the uniqueness check made on the cache field, bypassing
\* the children property.
new_keyed_cache_only(c, field, meta, q, p) ==
    LET g == [cache |-> Cache(c), calls |-> <<>>, raised |-> FALSE, used |-> 0] IN
    IF \E i \in 1..Len(g.cache.list) : g.cache.list[i].meta[field] = meta[field]
    THEN After(c, g, "ValueError: already exists")
    ELSE Create(c, g, meta, p)

\* The creation with the persistence call made before the uniqueness check.
new_keyed_persist_first(c, field, meta, q, p) ==
    LET g == LazyGet(c, q) IN
    IF g.raised
    THEN After(c, g, "raise")
    ELSE IF \E i \in 1..Len(g.cache.list) : g.cache.list[i].meta[field] = meta[field]
    THEN [After(c, g, "ValueError: already exists")
             EXCEPT !.calls = @ \o <<PersistName(c)>>]
    ELSE Create(c, g, meta, p)

\* new_run, new_voxel_spacing, new_tomogram, new_features: the uniqueness
\* check "value in [x.<field> for x in self.<children>]", then the creation.
new_keyed(c, field, meta, q, p) ==
    LET g == LazyGet(c, q) IN
    IF g.raised \/ \E i \in 1..Len(g.cache.list) : g.cache.list[i].meta[field] = meta[field]
    THEN After(c, g, "ValueError: already exists")
    ELSE Create(c, g, meta, p)

\* get_run / get_voxel_spacing keeping the instance they construct: the
\* unpopulated cache becomes the list of that one instance.
get_random_access_attach(c, field, meta, e) ==
    IF ~Cache(c).some
    THEN IF e = "raise"
         THEN [caches |-> Untouched, calls |-> <<"ensure(create=False)">>,
               used |-> NoneUsed, backend |-> backend, result |-> "raise", ret |-> <<>>]
         ELSE IF Holds(c, meta)
         THEN [caches |->
                   c :> Some(<<Construct(factory(c), Parent(c), meta, nextId[c] + 1)>>),
               calls |-> <<"ensure(create=False)">>,
               used |-> c :> 1, backend |-> backend, result |-> "ok",
               ret |-> <<Construct(factory(c), Parent(c), meta, nextId[c] + 1)>>]
         ELSE [caches |-> Untouched, calls |-> <<"ensure(create=False)">>,
               used |-> NoneUsed, backend |-> backend, result |-> "ok", ret |-> <<>>]
    ELSE [caches |-> Untouched, calls |-> <<>>, used |-> NoneUsed, backend |-> backend,
          result |-> "ok", ret |-> first_match(Cache(c).list, field, meta[field])]

\* get_run and get_voxel_spacing answering from a populated cache with a new
\* instance constructed from the metadata of the cached entity.
get_random_access_copy(c, field, meta, e) ==
    IF ~Cache(c).some
    THEN IF e = "raise"
         THEN [caches |-> Untouched, calls |-> <<"ensure(create=False)">>,
               used |-> NoneUsed, backend |-> backend, result |-> "raise", ret |-> <<>>]
         ELSE IF Holds(c, meta)
         THEN [caches |-> Untouched, calls |-> <<"ensure(create=False)">>,
               used |-> c :> 1, backend |-> backend, result |-> "ok",
               ret |-> <<Construct(factory(c), Parent(c), meta, nextId[c] + 1)>>]
         ELSE [caches |-> Untouched, calls |-> <<"ensure(create=False)">>,
               used |-> NoneUsed, backend |-> backend, result |-> "ok", ret |-> <<>>]
    ELSE LET hit == first_match(Cache(c).list, field, meta[field]) IN
         [caches |-> Untouched, calls |-> <<>>,
          used |-> IF hit = <<>> THEN NoneUsed ELSE c :> 1,
          backend |-> backend, result |-> "ok",
          ret |-> IF hit = <<>> THEN <<>>
                  ELSE <<[hit[1] EXCEPT !.id = nextId[c] + 1]>>]

\* get_run and get_voxel_spacing.  Cache None: construct the entity and ask
\* ensure(create=False); return it if the backend has it, None otherwise.
\* Cache populated: scan it.
get_random_access(c, field, meta, e) ==
    IF ~Cache(c).some
    THEN IF e = "raise"
         THEN [caches |-> Untouched, calls |-> <<"ensure(create=False)">>,
               used |-> NoneUsed, backend |-> backend, result |-> "raise", ret |-> <<>>]
         ELSE IF Holds(c, meta)
         THEN [caches |-> Untouched, calls |-> <<"ensure(create=False)">>,
               used |-> c :> 1, backend |-> backend, result |-> "ok",
               ret |-> <<Construct(factory(c), Parent(c), meta, nextId[c] + 1)>>]
         ELSE [caches |-> Untouched, calls |-> <<"ensure(create=False)">>,
               used |-> NoneUsed, backend |-> backend, result |-> "ok", ret |-> <<>>]
    ELSE [caches |-> Untouched, calls |-> <<>>, used |-> NoneUsed, backend |-> backend,
          result |-> "ok", ret |-> first_match(Cache(c).list, field, meta[field])]

\* get_tomogram and get_features: scan the children property.
get_scan(c, field, value, q) ==
    LET g == LazyGet(c, q) IN
    [caches |-> c :> g.cache, calls |-> g.calls, used |-> c :> g.used,
     backend |-> backend,
     result |-> IF g.raised THEN "raise" ELSE "ok",
     ret |-> IF g.raised THEN <<>> ELSE first_match(g.cache.list, field, value)]

\* ------------------------------------- the abstract operations, base layer

\* The Backend Contract operations as the classes of models.py define them,
\* called on an object of the base class itself (no implementation overrides
\* them).
AbstractOps ==
    {"CopickRoot.query", "CopickRun.query_voxelspacings", "CopickRun.query_picks",
     "CopickRun.query_meshes", "CopickRun.query_segmentations", "CopickRun.ensure",
     "CopickVoxelSpacing.query_tomograms", "CopickVoxelSpacing.ensure",
     "CopickTomogram.query_features", "CopickTomogram.zarr", "CopickFeatures.zarr",
     "CopickSegmentation.zarr", "CopickObject.zarr", "CopickPicks._load",
     "CopickPicks._store", "CopickMesh._load", "CopickMesh._store"}

\* The body of the operation in its base class: "raise NotImplementedError(...)"
\* everywhere but in CopickRoot.query, whose body is "pass" (the call returns
\* None), and in CopickObject.zarr, which returns None when the object is not a
\* particle.
abstract_body(op, is_particle) ==
    CASE op = "CopickRoot.query" -> "return None"
      [] op = "CopickObject.zarr" ->
           IF ~is_particle THEN "return None" ELSE "NotImplementedError"
      [] OTHER -> "NotImplementedError"

\* A call of an abstract operation on a base-class object; is_particle is the
\* flag of the CopickObject that zarr is called on.
BaseCall(op, is_particle) ==
    /\ scope = {"base"}
    /\ trace' = <<>>
    /\ last' = [op |-> op,
                args |-> IF op = "CopickObject.zarr"
                         THEN [is_particle |-> is_particle] ELSE NoArgs,
                result |-> IF abstract_body(op, is_particle) = "return None"
                           THEN "ok" ELSE abstract_body(op, is_particle),
                ret |-> <<>>]
    /\ UNCHANGED <<scope, config_user_id, _runs, _voxel_spacings, _picks, _meshes,
                   _segmentations, _tomograms, _features, _objects, backend, nextId>>
    /\ UNCHANGED valueVars

\* --------------------------------------------------------- PickableObject

\* The label validator asserting a positive label.
validate_label_positive(v) == IF v > 0 THEN "ok" ELSE "ValidationError"

\* validate_label: "assert v != 0"; pydantic reports the failed assertion as a
\* ValidationError of the construction.
validate_label(v) == IF v # 0 THEN "ok" ELSE "ValidationError"

\* The largest value of a color component.
ColorMax == 255

\* The color validator without the upper limit of a component.
validate_color_no_upper(v) ==
    IF Len(v) = 4 /\ \A k \in 1..Len(v) : 0 <= v[k] THEN "ok" ELSE "ValidationError"

\* The field type Tuple[int, int, int, int] (pydantic rejects a tuple of
\* another length before the validator runs), then validate_color:
\* "assert len(v) == 4", "assert all(0 <= c <= 255 for c in v)".
validate_color(v) ==
    IF Len(v) # 4 THEN "ValidationError"
    ELSE IF \A k \in 1..Len(v) : 0 <= v[k] /\ v[k] <= ColorMax THEN "ok"
    ELSE "ValidationError"

\* The validation of an Optional field: the validator is not run for an
\* absent (or None) value <<>>, and is run on v for <<v>>.
validate_optional(field, value) ==
    IF value = <<>> THEN "ok"
    ELSE IF field = "label" THEN validate_label(value[1])
    ELSE validate_color(value[1])

\* PickableObject(name=..., is_particle=..., label=label, color=color) with
\* valid other fields; label and color are <<>> (absent or None) or <<v>>.
\* The construction fails when a validator fails; the object keeps the label
\* and the color it was given.
PickableObject(label, color) ==
    /\ scope = {"objects"}
    /\ trace' = <<>>
    /\ LET ok == /\ validate_optional("label", label) = "ok"
                 /\ validate_optional("color", color) = "ok"
       IN last' = [op |-> "PickableObject",
                   args |-> [label |-> label, color |-> color],
                   result |-> IF ok THEN "ok" ELSE "ValidationError",
                   ret |-> IF ok THEN <<[label |-> label, color |-> color]>>
                           ELSE <<>>]
    /\ UNCHANGED <<scope, config_user_id, _runs, _voxel_spacings, _picks, _meshes,
                   _segmentations, _tomograms, _features, _objects, backend, nextId>>
    /\ UNCHANGED valueVars

\* ------------------------------------------------------------ CopickPoint
\* Matrix entries are fixed-point numbers in units of 1e-08: One is 1.0.  A
\* nested list is a sequence of rows; a numpy array is [shape, flat], its
\* shape and its entries in row-major order.

\* 1.0 in units of 1e-08.
One == 100000000

\* numpy.allclose's default absolute tolerance, 1e-08.
atol == 1

\* numpy.allclose's default relative tolerance 1e-05, as its inverse.
rtol_inv == 100000

\* The default of transformation_: the identity matrix.
Identity ==
    <<<<One, 0, 0, 0>>, <<0, One, 0, 0>>, <<0, 0, One, 0>>, <<0, 0, 0, One>>>>

\* np.array(v) of a nested list: a 2-D array when the rows have one length,
\* and no 2-D array (a 1-D array of the rows, or an error, by the numpy
\* version) otherwise.
np_array(v) ==
    IF v # <<>> /\ \A i \in 1..Len(v) : Len(v[i]) = Len(v[1])
    THEN [shape |-> <<Len(v), Len(v[1])>>,
          flat |-> [k \in 1..(Len(v) * Len(v[1])) |->
                       v[((k - 1) \div Len(v[1])) + 1][((k - 1) % Len(v[1])) + 1]]]
    ELSE [shape |-> <<Len(v)>>, flat |-> <<>>]

\* value.tolist() of a 2-D array.
tolist(arr) ==
    [i \in 1..arr.shape[1] |->
        [j \in 1..arr.shape[2] |-> arr.flat[(i - 1) * arr.shape[2] + j]]]

\* arr[3, :] and arr[3, 3] of a 4x4 array (0-based indices).
bottom_row(arr) == [j \in 1..4 |-> arr.flat[12 + j]]

\* np.allclose(a, b): |a - b| <= atol + rtol * |b| for every entry (b >= 0).
allclose(a, b) ==
    \A k \in 1..Len(a) :
        LET tol == atol + (b[k] \div rtol_inv) IN (a[k] - b[k]) \in (0 - tol)..tol

\* The three assertions of validate_transformation and of the setter.
valid_transformation(arr) ==
    /\ arr.shape = <<4, 4>>
    /\ bottom_row(arr)[4] = One
    /\ allclose(bottom_row(arr), <<0, 0, 0, One>>)

\* validate_transformation(v) on the nested list given to the construction.
validate_transformation(v) ==
    IF valid_transformation(np_array(v)) THEN "ok" ELSE "ValidationError"

\* The outcome of an operation on the Point.
PointEffect(op, args, result, ret, stored) ==
    /\ scope = {"points"}
    /\ transformation_' = stored
    /\ trace' = <<>>
    /\ last' = [op |-> op, args |-> args, result |-> result, ret |-> ret]
    /\ UNCHANGED <<treeVars, artifact, threads>>

\* CopickPoint(location=..., transformation_=t): t is <<>> (not given: the
\* default, which no validator runs on) or <<v>>, a nested list.  A failed
\* construction yields no Point; the Point at hand stays the one it was.
CopickPoint(t) ==
    LET result == IF t = <<>> THEN "ok" ELSE validate_transformation(t[1])
        stored == IF t = <<>> THEN Identity ELSE t[1]
    IN PointEffect("CopickPoint", [transformation_ |-> t], result,
                   IF result = "ok" THEN <<stored>> ELSE <<>>,
                   IF result = "ok" THEN stored ELSE transformation_)

\* The getter of transformation: np.array(self.transformation_).
transformation ==
    PointEffect("CopickPoint.transformation", NoArgs, "ok",
                <<np_array(transformation_)>>, transformation_)

\* The body of the setter of transformation on an array value: the three
\* assertions, then self.transformation_ = value.tolist().
transformation_setter(value) ==
    IF valid_transformation(value)
    THEN [result |-> "ok", transformation_ |-> tolist(value)]
    ELSE [result |-> "AssertionError", transformation_ |-> transformation_]

\* The fields of CopickPoint; it has no private attribute.
CopickPoint_fields == {"location", "transformation_", "instance_id", "score"}

\* BaseModel.__setattr__(name, value) of CopickPoint, a pydantic (v1) model
\* with the default Config.extra: a private attribute is set by
\* object.__setattr__ (which would run a property's setter); a name that is
\* no field raises ValueError; a field is assigned.  transformation is a
\* property and no field.
BaseModel_setattr(name, value) ==
    IF name \in {}
    THEN transformation_setter(value)
    ELSE IF name \notin CopickPoint_fields
    THEN [result |-> "ValueError", transformation_ |-> transformation_]
    ELSE [result |-> "ok", transformation_ |-> value]

\* point.transformation = value, value a numpy array.
transformation_assign(value) ==
    LET r == BaseModel_setattr("transformation", value) IN
    PointEffect("CopickPoint.transformation.setter", [value |-> value],
                r.result, <<>>, r.transformation_)

\* ------------------------------------------------------------- CopickRoot

\* config.pickable_objects, the list the Root builds its objects from.
config_pickable_objects == <<[name |-> "ribosome", color |-> <<255, 0, 0, 255>>]>>

\* An operation on the Root's objects: the pickable_objects property builds
\* the objects from the config on its first read; no backend call is made.
ObjectsEffect(op, args, ret) ==
    /\ scope = {"objects"}
    /\ _objects' = IF _objects.some
                   THEN _objects
                   ELSE Some([i \in 1..Len(config_pickable_objects) |->
                                 [meta |-> config_pickable_objects[i], id |-> i]])
    /\ trace' = <<>>
    /\ last' = [op |-> op, args |-> args, result |-> "ok", ret |-> ret]
    /\ UNCHANGED <<scope, config_user_id, _runs, _voxel_spacings, _picks, _meshes,
                   _segmentations, _tomograms, _features, backend, nextId>>
    /\ UNCHANGED valueVars

CopickRoot_pickable_objects ==
    ObjectsEffect("pickable_objects", NoArgs, _objects'.list)

get_object(name) ==
    ObjectsEffect("get_object", [name |-> name],
                  first_match(_objects'.list, "name", name))

\* The color property of an entity of collection c with metadata meta.
\* CopickPicks.color: get_object(name) is None raises ValueError.
\* CopickMesh.color: "get_object(name).color", AttributeError on None.
\* CopickSegmentation.color: [128, 128, 128, 0] when multilabel, otherwise
\* "get_object(name).color".
color_outcome(c, meta) ==
    LET name == IF c = "segmentations" THEN meta.name ELSE meta.pickable_object_name
        obj == first_match([i \in 1..Len(config_pickable_objects) |->
                               [meta |-> config_pickable_objects[i], id |-> i]],
                           "name", name)
    IN  IF c = "segmentations" /\ meta.is_multilabel
        THEN [result |-> "ok", ret |-> <<<<128, 128, 128, 0>>>>, objects |-> FALSE]
        ELSE IF obj = <<>>
        THEN [result |-> IF c = "picks" THEN "ValueError" ELSE "AttributeError",
              ret |-> <<>>, objects |-> TRUE]
        ELSE [result |-> "ok", ret |-> <<obj[1].meta.color>>, objects |-> TRUE]

\* A read of the color of the i-th cached entity of collection c; get_object
\* reads the pickable_objects property, which builds the Root's objects.
color(c, i) ==
    /\ Constructed
    /\ scope = RunScope
    /\ c \in {"picks", "meshes", "segmentations"}
    /\ Cache(c).some
    /\ i \in 1..Len(Cache(c).list)
    /\ LET r == color_outcome(c, Cache(c).list[i].meta) IN
       /\ _objects' = IF _objects.some \/ ~r.objects
                      THEN _objects
                      ELSE Some([j \in 1..Len(config_pickable_objects) |->
                                    [meta |-> config_pickable_objects[j], id |-> j]])
       /\ last' = [op |-> "color", args |-> [c |-> c, i |-> i],
                   result |-> r.result, ret |-> r.ret]
    /\ trace' = <<>>
    /\ UNCHANGED <<scope, config_user_id, _runs, _voxel_spacings, _picks, _meshes,
                   _segmentations, _tomograms, _features, backend, nextId>>
    /\ UNCHANGED valueVars

get_run(name, e) ==
    Effect("runs", "get_run", [name |-> name],
           get_random_access("runs", "name", [name |-> name], e))

new_run(name, q, p) ==
    Effect("runs", "new_run", [name |-> name],
           new_keyed("runs", "name", [name |-> name], q, p))

\* ------------------------------------------------ CopickRun: voxel spacings

get_voxel_spacing(voxel_size, e) ==
    Effect("voxel_spacings", "get_voxel_spacing", [voxel_size |-> voxel_size],
           get_random_access("voxel_spacings", "voxel_size",
                             [voxel_size |-> voxel_size], e))

new_voxel_spacing(voxel_size, q, p) ==
    Effect("voxel_spacings", "new_voxel_spacing", [voxel_size |-> voxel_size],
           new_keyed("voxel_spacings", "voxel_size", [voxel_size |-> voxel_size], q, p))

\* ------------------------------------------------------ CopickVoxelSpacing

get_tomogram(tomo_type_, q) ==
    Effect("tomograms", "get_tomogram", [tomo_type |-> tomo_type_],
           get_scan("tomograms", "tomo_type", tomo_type_, q))

new_tomogram(tomo_type_, q, p) ==
    Effect("tomograms", "new_tomogram", [tomo_type |-> tomo_type_],
           new_keyed("tomograms", "tomo_type", [tomo_type |-> tomo_type_], q, p))

\* ---------------------------------------------------------- CopickTomogram

get_features(feature_type, q) ==
    Effect("features", "get_features", [feature_type |-> feature_type],
           get_scan("features", "feature_type", feature_type, q))

new_features(feature_type, q, p) ==
    Effect("features", "new_features", [feature_type |-> feature_type],
           new_keyed("features", "feature_type",
                     [tomo_type |-> tomo_type, feature_type |-> feature_type], q, p))

\* ------------------------------------------------ CopickRun: segmentations

\* get_segmentations without the is_multilabel filter.
filter_segmentations_no_multilabel(list, user_id, session_id, is_multilabel, name, voxel_size) ==
    SelectSeq(list, LAMBDA x :
        /\ user_id # NoneStr => x.meta.user_id = user_id
        /\ session_id # NoneStr => x.meta.session_id = session_id
        /\ name # NoneStr => x.meta.name = name
        /\ voxel_size # NoneVal => x.meta.voxel_size = voxel_size[1])

\* The five filters of get_segmentations, applied in the source's order; a
\* filter that is None is skipped.
filter_segmentations(list, user_id, session_id, is_multilabel, name, voxel_size) ==
    LET r1 == IF user_id # NoneStr
              THEN SelectSeq(list, LAMBDA x : x.meta.user_id = user_id)
              ELSE list
        r2 == IF session_id # NoneStr
              THEN SelectSeq(r1, LAMBDA x : x.meta.session_id = session_id)
              ELSE r1
        r3 == IF is_multilabel # NoneVal
              THEN SelectSeq(r2, LAMBDA x : x.meta.is_multilabel = is_multilabel[1])
              ELSE r2
        r4 == IF name # NoneStr
              THEN SelectSeq(r3, LAMBDA x : x.meta.name = name)
              ELSE r3
    IN  IF voxel_size # NoneVal
        THEN SelectSeq(r4, LAMBDA x : x.meta.voxel_size = voxel_size[1])
        ELSE r4

get_segmentations(user_id, session_id, is_multilabel, name, voxel_size, q) ==
    LET g == LazyGet("segmentations", q) IN
    Effect("segmentations", "get_segmentations",
           [user_id |-> user_id, session_id |-> session_id,
            is_multilabel |-> is_multilabel, name |-> name, voxel_size |-> voxel_size],
           [caches |-> "segmentations" :> g.cache, calls |-> g.calls,
            used |-> "segmentations" :> g.used, backend |-> backend,
            result |-> IF g.raised THEN "raise" ELSE "ok",
            ret |-> IF g.raised THEN <<>>
                    ELSE filter_segmentations(g.cache.list, user_id, session_id,
                                              is_multilabel, name, voxel_size)])

\* user_picks / user_meshes / user_segmentations: with no user id configured
\* "[p for p in self.picks if p.session_id != "0"]", otherwise
\* "self.get_picks(user_id=self.root.config.user_id)".
user_entries(c, op, q) ==
    LET g == LazyGet(c, q) IN
    Effect(c, op, NoArgs,
           [caches |-> c :> g.cache, calls |-> g.calls, used |-> c :> g.used,
            backend |-> backend,
            result |-> IF g.raised THEN "raise" ELSE "ok",
            ret |-> IF g.raised THEN <<>>
                    ELSE IF config_user_id = NoneStr
                    THEN SelectSeq(g.cache.list, LAMBDA x : x.meta.session_id # "0")
                    ELSE IF c = "segmentations"
                    THEN filter_segmentations(g.cache.list, config_user_id, NoneStr,
                                              NoneVal, NoneStr, NoneVal)
                    ELSE filter_picks(g.cache.list, NoneStr, config_user_id, NoneStr)])

\* tool_picks / tool_meshes / tool_segmentations:
\* "[p for p in self.picks if p.session_id == "0"]".
tool_entries(c, op, q) ==
    LET g == LazyGet(c, q) IN
    Effect(c, op, NoArgs,
           [caches |-> c :> g.cache, calls |-> g.calls, used |-> c :> g.used,
            backend |-> backend,
            result |-> IF g.raised THEN "raise" ELSE "ok",
            ret |-> IF g.raised THEN <<>>
                    ELSE SelectSeq(g.cache.list, LAMBDA x : x.meta.session_id = "0")])

\* The user_* and tool_* accessors of the three annotation collections.
UserTool ==
    {[c |-> "picks", user |-> "user_picks", tool |-> "tool_picks"],
     [c |-> "meshes", user |-> "user_meshes", tool |-> "tool_meshes"],
     [c |-> "segmentations", user |-> "user_segmentations",
      tool |-> "tool_segmentations"]}

\* new_segmentation: the name check (single-label only), the voxel size check
\* through the voxel_spacings property, the user id, the uniqueness check
\* through get_segmentations, then the creation.
\* The name check applied to multilabel segmentations too.
name_not_found_always(name, is_multilabel) == name \notin pickable_objects

\* "if not is_multilabel and name not in [o.name for o in pickable_objects]".
name_not_found(name, is_multilabel) ==
    ~is_multilabel /\ name \notin pickable_objects

\* The voxel size check left out.
voxel_size_not_found_never(list, voxel_size) == FALSE

\* "if voxel_size not in [vs.voxel_size for vs in self.voxel_spacings]".
voxel_size_not_found(list, voxel_size) ==
    ~\E i \in 1..Len(list) : list[i].meta.voxel_size = voxel_size

\* new_segmentation: the name check, the voxel size check (which reads the
\* voxel_spacings property), the user id, the uniqueness check through
\* get_segmentations, then the creation.
new_segmentation_outcome(voxel_size, name, session_id, is_multilabel, user_id, qv, q, p) ==
    IF name_not_found(name, is_multilabel)
    THEN Raise("ValueError: object name not found")
    ELSE LET gv == LazyGet("voxel_spacings", qv) IN
         IF gv.raised \/ voxel_size_not_found(gv.cache.list, voxel_size)
         THEN After("voxel_spacings", gv, "ValueError: voxel size not found")
         ELSE LET uid == resolve_uid(user_id) IN
              IF uid = NoneStr
              THEN After("voxel_spacings", gv, "ValueError: user id must be set")
              ELSE LET g == LazyGet("segmentations", q)
                       r == IF g.raised
                               \/ filter_segmentations(g.cache.list, uid, session_id,
                                                       Val(is_multilabel), name,
                                                       Val(voxel_size)) # <<>>
                            THEN After("segmentations", g, "ValueError: already exist")
                            ELSE Create("segmentations", g,
                                        [user_id |-> uid, session_id |-> session_id,
                                         name |-> name, is_multilabel |-> is_multilabel,
                                         voxel_size |-> voxel_size], p)
                   \* with the voxel spacings read before
                   IN [r EXCEPT !.caches = ("voxel_spacings" :> gv.cache) @@ r.caches,
                                !.calls = gv.calls \o r.calls,
                                !.used = ("voxel_spacings" :> gv.used) @@ r.used]

new_segmentation(voxel_size, name, session_id, is_multilabel, user_id, qv, q, p) ==
    Effect("segmentations", "new_segmentation",
           [voxel_size |-> voxel_size, name |-> name, session_id |-> session_id,
            is_multilabel |-> is_multilabel, user_id |-> user_id],
           new_segmentation_outcome(voxel_size, name, session_id, is_multilabel,
                                    user_id, qv, q, p))

\* ---------------------------------------------------------- specification

\* The collections operated on together: a Root's runs; a Run's voxel
\* spacings, picks, meshes, and segmentations (with the voxel spacings they
\* refer to); a VoxelSpacing's tomograms; a Tomogram's features.
Scopes ==
    {{"runs"}, {"objects"}, {"voxel_spacings"}, {"picks"}, {"meshes"},
     {"segmentations", "voxel_spacings"}, {"tomograms"}, {"features"}, RunScope,
     {"base"}, {"points"}}

\* A listing the backend may hold at the start, per collection.
Stored(c) ==
    CASE c = "runs" -> <<[name |-> "TS_001"]>>
      [] c = "voxel_spacings" -> <<[voxel_size |-> 10000]>>
      [] c = "picks" ->
           <<[pickable_object_name |-> "ribosome", user_id |-> "bob", session_id |-> "0"]>>
      [] c = "meshes" ->
           <<[pickable_object_name |-> "ribosome", user_id |-> "bob", session_id |-> "0"]>>
      [] c = "segmentations" ->
           <<[user_id |-> "bob", session_id |-> "1", name |-> "membrane",
              is_multilabel |-> TRUE, voxel_size |-> 10000]>>
      [] c = "tomograms" -> <<[tomo_type |-> "wbp"]>>
      [] c = "features" -> <<[tomo_type |-> tomo_type, feature_type |-> "sobel"]>>

\* The listings the backend may hold at the start.  With segmentations the
\* voxel spacings are only read, and the backend holds one or both of them.
InitBackends(sc) ==
    IF sc = RunScope
    THEN {[c \in Collections |-> IF c \in full THEN Stored(c) ELSE <<>>] :
          full \in {{"picks"}, RunScope}}
    ELSE IF "segmentations" \in sc
    THEN {[c \in Collections |->
              CASE c = "segmentations" -> segs
                [] c = "voxel_spacings" -> vss
                [] OTHER -> <<>>] :
          segs \in {<<>>, Stored("segmentations")},
          vss \in {Stored("voxel_spacings"),
                   Stored("voxel_spacings") \o <<[voxel_size |-> 20000]>>}}
    ELSE {[c \in Collections |-> IF c \in full THEN Stored(c) ELSE <<>>] :
          full \in SUBSET sc}

\* The state after construction of the Root (config.runs unset), the Run, the
\* VoxelSpacing and the Tomogram (no config given): every cache is None.
Init ==
    /\ scope \in Scopes
    /\ config_user_id \in {NoneStr, "bob"}
    /\ _runs = None
    /\ _voxel_spacings = None
    /\ _picks = None
    /\ _meshes = None
    /\ _segmentations = None
    /\ _tomograms = None
    /\ _features = None
    /\ _objects = None
    /\ backend \in InitBackends(scope)
    /\ nextId = [c \in Collections |-> 0]
    /\ transformation_ = Identity
    /\ threads = [t \in Threads |-> Idle]
    /\ artifact = [c \in Artifacts |-> [i \in 1..MaxId |-> NoneVal]]
    /\ trace = <<>>
    /\ last = [op |-> "init", args |-> NoArgs, result |-> "ok", ret |-> <<>>]

\* The outcomes of the query that a lazy read of collection c makes; a read of
\* a populated cache makes none.
\* What a query call may do: on an implementation's object, return the list
\* or raise; on a Root of the base class, what the body of CopickRoot.query
\* does.
QueryOutcomes ==
    IF "base" \in scope THEN {abstract_body("CopickRoot.query", FALSE)}
    ELSE {"list", "raise"}

Q(c) == IF Cache(c).some THEN {"list"} ELSE QueryOutcomes

\* The user_id argument of a creation: not supplied, or supplied.
UserArgs == {NoneStr, "alice"}

\* The filters lookups are called with.
NameFilters == {NoneStr, "ribosome"}

UserFilters == {NoneStr, "alice", "bob"}

SessionFilters == {NoneStr, "0"}

NextRoot ==
    \/ \E q \in Q("runs") : runs(q)
    \/ \E q \in QueryOutcomes : CopickRoot_refresh(q)
    \/ \E n \in RunNames, e \in EnsureOutcomes : get_run(n, e)
    \/ \E n \in RunNames, q \in Q("runs"), p \in PersistOutcomes : new_run(n, q, p)

\* The query of Run.refresh that raises: none (0), or the f-th.
RefreshOutcomes == 0..4

NextRun == \E f \in RefreshOutcomes : CopickRun_refresh(f)

\* The labels a PickableObject is constructed with.
Labels == {<<>>} \cup {<<v>> : v \in -MaxLabel..MaxLabel}

\* The values of a color component the constructions use: the limits of the
\* range and their neighbours.
ColorComponents == {-1, 0, ColorMax, ColorMax + 1}

\* The colors a PickableObject is constructed with: absent, every 4-tuple of
\* the components, and tuples of every other length up to MaxColorLen with
\* components inside and outside the range.
Colors ==
    {<<>>} \cup {<<v>> : v \in [1..4 -> ColorComponents]}
           \cup {<<v>> : v \in UNION {[1..n -> {0, ColorMax + 1}] :
                                       n \in (0..MaxColorLen) \ {4}}}

\* The constructions of a PickableObject: every label with no color and with
\* a valid color, and every color with a valid label.
PickableArgs ==
    [label : Labels, color : {<<>>, <<<<0, 0, 0, ColorMax>>>>}]
        \cup [label : {<<1>>}, color : Colors]

NextObjects ==
    \/ CopickRoot_pickable_objects
    \/ \E n \in Names : get_object(n)
    \/ \E a \in PickableArgs : PickableObject(a.label, a.color)

\* The nested lists given to a Point: 4x4 matrices, a 3x3 matrix, a 3x4
\* matrix and a ragged list.  The rows above the bottom row are those of the
\* identity or of a rotation about z with a translation; the bottom row is
\* exact, off by the tolerance or by twice the tolerance, has a last element
\* off by the tolerance, or is far off.
Matrices ==
    LET top == {<<<<One, 0, 0, 0>>, <<0, One, 0, 0>>, <<0, 0, One, 0>>>>,
                <<<<0, 0 - One, 0, 5 * One>>, <<One, 0, 0, 0>>, <<0, 0, One, 0>>>>}
        bottom == {<<0, 0, 0, One>>, <<atol, 0, 0, One>>, <<2 * atol, 0, 0, One>>,
                   <<0, 0, 0, One + atol>>, <<0, 0, 0, 2 * One>>, <<0, One, 0, One>>}
    IN {t \o <<b>> : t \in top, b \in bottom}
        \cup {<<<<One, 0, 0>>, <<0, One, 0>>, <<0, 0, One>>>>,
              <<<<One, 0, 0, 0>>, <<0, One, 0, 0>>, <<0, 0, 0, One>>>>,
              <<<<One, 0, 0, 0>>, <<0, One, 0>>, <<0, 0, One, 0>>, <<0, 0, 0, One>>>>}

\* A Point is constructed, its transformation read, and assigned the arrays
\* of the matrices.
NextPoints ==
    \/ \E t \in {<<>>} \cup {<<v>> : v \in Matrices} : CopickPoint(t)
    \/ transformation
    \/ \E m \in {v \in Matrices : np_array(v).flat # <<>>} :
          transformation_assign(np_array(m))

NextBase == \E op \in AbstractOps, b \in BOOLEAN : BaseCall(op, b)

NextVoxelSpacings ==
    \/ \E q \in Q("voxel_spacings") : voxel_spacings(q)
    \/ /\ scope = {"voxel_spacings"}
       /\ \E q \in QueryOutcomes : refresh_voxel_spacings(q)
    \/ /\ scope = {"voxel_spacings"}
       /\ \E v \in VoxelSizes, e \in EnsureOutcomes : get_voxel_spacing(v, e)
    \/ /\ scope = {"voxel_spacings"}
       /\ \E v \in VoxelSizes, q \in Q("voxel_spacings"), p \in PersistOutcomes :
             new_voxel_spacing(v, q, p)

NextPicks ==
    \/ \E q \in Q("picks") : picks(q)
    \/ \E q \in QueryOutcomes : refresh_picks(q)
    \/ \E o \in NameFilters, u \in UserFilters, s \in SessionFilters, q \in Q("picks") :
          get_picks(o, u, s, q)
    \/ \E o \in Names, s \in SessionIds, u \in UserArgs,
          q \in Q("picks"), p \in PersistOutcomes :
          new_picks(o, s, u, q, p)

NextMeshes ==
    \/ \E q \in Q("meshes") : meshes(q)
    \/ \E q \in QueryOutcomes : refresh_meshes(q)
    \/ \E o \in NameFilters, u \in UserFilters, s \in SessionFilters, q \in Q("meshes") :
          get_meshes(o, u, s, q)
    \/ \E o \in Names, s \in SessionIds, u \in UserArgs,
          q \in Q("meshes"), p \in PersistOutcomes :
          new_mesh(o, s, u, q, p)

\* The arguments new_segmentation is called with: one call, every call that
\* differs from it in one argument, and a single-label call for a known object.
NewSegBase ==
    [voxel_size |-> 10000, name |-> "membrane", session_id |-> "1",
     is_multilabel |-> TRUE, user_id |-> "alice"]

NewSegArgs ==
    {a \in [voxel_size : VoxelSizes, name : Names, session_id : SessionIds,
            is_multilabel : BOOLEAN, user_id : UserArgs] :
        \/ Cardinality({f \in DOMAIN a : a[f] # NewSegBase[f]}) <= 1
        \/ a = [NewSegBase EXCEPT !.name = "ribosome", !.is_multilabel = FALSE]}

\* The filters get_segmentations is called with: none, one, or all five.
GetSegBase ==
    [user_id |-> "bob", session_id |-> "1", is_multilabel |-> Val(TRUE),
     name |-> "membrane", voxel_size |-> Val(10000)]

GetSegNone ==
    [user_id |-> NoneStr, session_id |-> NoneStr, is_multilabel |-> NoneVal,
     name |-> NoneStr, voxel_size |-> NoneVal]

GetSegArgs ==
    {GetSegBase} \cup
    {[f \in DOMAIN GetSegBase |-> IF f \in on THEN GetSegBase[f] ELSE GetSegNone[f]] :
        on \in {{}, {"user_id"}, {"session_id"}, {"is_multilabel"}, {"name"},
                {"voxel_size"}}}

NextSegmentations ==
    \/ \E q \in Q("segmentations") : segmentations(q)
    \/ \E q \in QueryOutcomes : refresh_segmentations(q)
    \/ \E a \in GetSegArgs, q \in Q("segmentations") :
          get_segmentations(a.user_id, a.session_id, a.is_multilabel, a.name,
                            a.voxel_size, q)
    \/ \E a \in NewSegArgs,
          qv \in Q("voxel_spacings"), q \in Q("segmentations"), p \in PersistOutcomes :
          new_segmentation(a.voxel_size, a.name, a.session_id, a.is_multilabel,
                           a.user_id, qv, q, p)

NextTomograms ==
    \/ \E q \in Q("tomograms") : tomograms(q)
    \/ \E q \in QueryOutcomes : refresh_tomograms(q)
    \/ \E t \in TomoTypes, q \in Q("tomograms") : get_tomogram(t, q)
    \/ \E t \in TomoTypes, q \in Q("tomograms"), p \in PersistOutcomes :
          new_tomogram(t, q, p)

NextFeatures ==
    \/ \E q \in Q("features") : features(q)
    \/ \E q \in QueryOutcomes : refresh_features(q)
    \/ \E f \in FeatureTypes, q \in Q("features") : get_features(f, q)
    \/ \E f \in FeatureTypes, q \in Q("features"), p \in PersistOutcomes :
          new_features(f, q, p)

Next ==
    \/ NextBase
    \/ NextPoints
    \/ NextObjects
    \/ NextRun
    \/ NextRoot
    \/ NextVoxelSpacings
    \/ NextPicks
    \/ NextMeshes
    \/ NextSegmentations
    \/ NextTomograms
    \/ NextFeatures

Spec == Init /\ [][Next]_vars

\* ------------------------------------------------ construction from a Config

\* config.runs: unset, or a list of run names (the Config validates none of
\* them).
ConfigRuns ==
    {None, Some(<<>>), Some(<<"TS_001">>), Some(<<"TS_001", "TS_002">>),
     Some(<<"TS_002", "TS_002">>)}

\* The Configs objects are constructed from.  runs: config.runs; tomograms:
\* the keys (voxel sizes) of config.tomograms; declares: whether the object
\* has the attributes available_pre_picks, available_pre_meshes and
\* available_pre_segmentations (a CopickConfig has none of them); pre_picks,
\* pre_meshes, pre_segmentations: the tool names they list for this run and
\* the object "ribosome".
Configs ==
    {c \in [runs : ConfigRuns, tomograms : {<<>>, <<10000>>, <<10000, 20000>>},
            declares : BOOLEAN, pre_picks : {<<>>, <<"bob">>},
            pre_meshes : {<<>>, <<"bob">>}, pre_segmentations : {<<>>, <<"bob">>}] :
        ~c.declares => c.pre_picks = <<>> /\ c.pre_meshes = <<>>
                       /\ c.pre_segmentations = <<>>}

\* CopickRun.__init__(root, meta, config): config is <<>> (None) or <<cfg>>.
\* The four caches are set to None; with a config, one CopickVoxelSpacing per
\* key of config.tomograms, then the pre-declared picks, meshes and
\* segmentations: the read of config.available_pre_picks raises AttributeError
\* on a Config without that attribute, "self._picks.append" and
\* "self._meshes.append" raise AttributeError on the None they are called on,
\* and CopickSegmentationMeta(run, user_id, session_id) raises ValidationError
\* (name, is_multilabel and voxel_size are required).
CopickRun_init(config) ==
    LET cfg == config[1]
        at(result) ==
            [_voxel_spacings |->
                 Some([i \in 1..Len(cfg.tomograms) |->
                          Construct(BaseClass("voxel_spacings"), "run",
                                    [voxel_size |-> cfg.tomograms[i]], i)]),
             _picks |-> None, _meshes |-> None, _segmentations |-> None,
             used |-> Len(cfg.tomograms), result |-> result]
    IN  IF config = <<>>
        THEN [_voxel_spacings |-> None, _picks |-> None, _meshes |-> None,
              _segmentations |-> None, used |-> 0, result |-> "ok"]
        ELSE IF ~cfg.declares THEN at("AttributeError")
        ELSE IF cfg.pre_picks # <<>> THEN at("AttributeError")
        ELSE IF cfg.pre_meshes # <<>> THEN at("AttributeError")
        ELSE IF cfg.pre_segmentations # <<>> THEN at("ValidationError")
        ELSE at("ok")

\* CopickRoot.__init__ handing its config on to the runs it constructs.
CopickRoot_init_config_to_runs(cfg) ==
    [_runs |-> IF cfg.runs.some
               THEN Some([i \in 1..Len(cfg.runs.list) |->
                             Construct(BaseClass("runs"), "root",
                                       [name |-> cfg.runs.list[i]], i)])
               ELSE None,
     run_config |-> <<cfg>>]

\* CopickRoot.__init__(config): _runs is None, or with config.runs set
\* [CopickRun(self, CopickRunMeta(name=run_name)) for run_name in config.runs].
\* run_config is the config argument of those CopickRun(...) calls: none.
CopickRoot_init(cfg) ==
    [_runs |-> IF cfg.runs.some
               THEN Some([i \in 1..Len(cfg.runs.list) |->
                             Construct(BaseClass("runs"), "root",
                                       [name |-> cfg.runs.list[i]], i)])
               ELSE None,
     run_config |-> <<>>]

\* A store that other processes, with Configs of their own, have written to:
\* annotations of an object this Root's Config does not list, a segmentation
\* at a voxel size the Run has no voxel spacing of.
Shared ==
    [c \in Collections |->
        CASE c = "voxel_spacings" -> <<[voxel_size |-> 10000]>>
          [] c = "picks" ->
               <<[pickable_object_name |-> "membrane", user_id |-> "bob",
                  session_id |-> "0"],
                 [pickable_object_name |-> "ribosome", user_id |-> "alice",
                  session_id |-> "1"]>>
          [] c = "meshes" ->
               <<[pickable_object_name |-> "membrane", user_id |-> "alice",
                  session_id |-> "1"]>>
          [] c = "segmentations" ->
               <<[user_id |-> "bob", session_id |-> "1", name |-> "ribosome",
                  is_multilabel |-> FALSE, voxel_size |-> 10000],
                 [user_id |-> "alice", session_id |-> "0", name |-> "membrane",
                  is_multilabel |-> FALSE, voxel_size |-> 20000]>>
          [] OTHER -> <<>>]

\* The state after construction.  Scope runs: the Root is constructed from a
\* Config, and the Run is the first one the Root constructed (or, the Root
\* having constructed none, a Run constructed without config).  Scope of a
\* whole Run: the Run is constructed by a caller, with a Config or without.
\* Scope runs and base: the Root is an object of the base class CopickRoot.
InitConfig ==
    /\ scope \in {{"runs"}, {"runs", "base"}, RunScope}
    /\ config_user_id \in {NoneStr, "bob"}
    /\ backend \in InitBackends(scope) \cup (IF scope = RunScope THEN {Shared} ELSE {})
    /\ \E cfg \in Configs : \E arg \in {<<>>, <<cfg>>} :
          LET root == CopickRoot_init(cfg)
              by_root == root._runs.some /\ root._runs.list # <<>>
              run == CopickRun_init(IF scope = RunScope THEN arg
                                    ELSE IF by_root THEN root.run_config ELSE <<>>)
          IN  /\ IF scope = RunScope
                 THEN cfg.runs = None
                 ELSE arg = <<>> /\ cfg.tomograms = <<10000>> /\ ~cfg.declares
              /\ _runs = root._runs
              /\ _voxel_spacings = run._voxel_spacings
              /\ _picks = run._picks
              /\ _meshes = run._meshes
              /\ _segmentations = run._segmentations
              /\ nextId = [c \in Collections |->
                              CASE c = "runs" -> Len(root._runs.list)
                                [] c = "voxel_spacings" -> run.used
                                [] OTHER -> 0]
              /\ last = [op |-> IF scope = RunScope
                                THEN "CopickRun.__init__" ELSE "CopickRoot.__init__",
                         args |-> [config |-> IF scope = RunScope THEN arg ELSE <<cfg>>],
                         result |-> run.result, ret |-> <<>>]
    /\ _tomograms = None
    /\ _features = None
    /\ transformation_ = Identity
    /\ threads = [t \in Threads |-> Idle]
    /\ artifact = [c \in Artifacts |-> [i \in 1..MaxId |-> NoneVal]]
    /\ _objects = None
    /\ trace = <<>>

\* "run.name = value" on the i-th run of the Root's runs.
CopickRun_name_setter(i, value) ==
    /\ Constructed
    /\ scope = {"runs"}
    /\ _runs.some
    /\ i \in 1..Len(_runs.list)
    /\ _runs' = Some([_runs.list EXCEPT ![i].meta.name = value])
    /\ trace' = <<>>
    /\ last' = [op |-> "CopickRun.name", args |-> [run |-> i, value |-> value],
                result |-> "ok", ret |-> <<>>]
    /\ UNCHANGED <<scope, config_user_id, _voxel_spacings, _picks, _meshes,
                   _segmentations, _tomograms, _features, _objects, backend, nextId>>
    /\ UNCHANGED valueVars

\* ensure(create=False) on the i-th run of the Root's runs: a run of the
\* implementation's class asks the backend, a CopickRun itself raises
\* NotImplementedError.
CopickRun_ensure(i, e) ==
    /\ Constructed
    /\ scope = {"runs"}
    /\ _runs.some
    /\ i \in 1..Len(_runs.list)
    /\ LET run == _runs.list[i] IN
       /\ trace' = IF run.cls.impl THEN <<"ensure(create=False)">> ELSE <<>>
       /\ last' = [op |-> "CopickRun.ensure", args |-> [run |-> i],
                   result |-> IF ~run.cls.impl THEN "NotImplementedError"
                              ELSE IF e = "raise" THEN "raise" ELSE "ok",
                   ret |-> IF run.cls.impl /\ e # "raise"
                           THEN <<Holds("runs", run.meta)>> ELSE <<>>]
    /\ UNCHANGED <<scope, config_user_id, _runs, _voxel_spacings, _picks, _meshes,
                   _segmentations, _tomograms, _features, _objects, backend, nextId>>
    /\ UNCHANGED valueVars

NextConfig ==
    \/ NextRoot
    \/ \E i \in 1..MaxId, n \in RunNames : CopickRun_name_setter(i, n)
    \/ \E i \in 1..MaxId, e \in EnsureOutcomes : CopickRun_ensure(i, e)
    \/ NextRun
    \/ \E q \in Q("picks") : picks(q)
    \/ \E q \in Q("segmentations") : segmentations(q)
    \/ \E c \in RunScope, i \in 1..MaxId : color(c, i)
    \/ \E k \in UserTool : \E q \in Q(k.c) : user_entries(k.c, k.user, q)
    \/ \E k \in UserTool : \E q \in Q(k.c) : tool_entries(k.c, k.tool, q)

SpecConfig == InitConfig /\ [][NextConfig]_vars

\* ------------------------------------------- two callers, one backend
\* A second caller with a Run instance of its own over the same backend.

\* new_picks(object_name, session_id, user_id) on the other caller's Run,
\* whose picks cache is unpopulated: it loads the listing, rejects a key the
\* listing holds and stores the new picks otherwise.  Its cache is its own;
\* to this caller only the backend changes.
other_new_picks(object_name, session_id, user_id) ==
    LET meta == [pickable_object_name |-> object_name, user_id |-> user_id,
                 session_id |-> session_id]
    IN  /\ scope = {"picks"}
        /\ backend' = Persisted("picks", meta)
        /\ trace' = IF Holds("picks", meta) THEN <<"query_picks">>
                    ELSE <<"query_picks", "append", "store">>
        /\ last' = [op |-> "other.new_picks",
                    args |-> [object_name |-> object_name, session_id |-> session_id,
                              user_id |-> user_id],
                    result |-> IF Holds("picks", meta)
                               THEN "ValueError: already exist" ELSE "ok",
                    ret |-> <<>>]
        /\ UNCHANGED <<scope, config_user_id, _runs, _voxel_spacings, _picks, _meshes,
                       _segmentations, _tomograms, _features, _objects, nextId>>
        /\ UNCHANGED valueVars

InitCallers == Init /\ scope = {"picks"}

NextCallers ==
    \/ \E q \in Q("picks") : picks(q)
    \/ \E q \in QueryOutcomes : refresh_picks(q)
    \/ \E o \in Names, s \in SessionIds, u \in UserArgs,
          q \in Q("picks"), p \in PersistOutcomes :
          new_picks(o, s, u, q, p)
    \/ \E s \in SessionIds, u \in UserIds : other_new_picks("ribosome", s, u)

SpecCallers == InitCallers /\ [][NextCallers]_vars

\* ----------------------------------------- two threads calling into one Root
\* The statements of the runs property and of new_run as the steps of a
\* thread; the interpreter may switch threads between any two of them.

\* The state after a step of thread t: its position, the runs cache, the
\* backend, the objects constructed and the backend calls and appends made.
ThreadStep(t, rec, cache, be, used, calls) ==
    /\ nextId["runs"] + used <= MaxId
    /\ threads' = [threads EXCEPT ![t] = rec]
    /\ _runs' = cache
    /\ backend' = be
    /\ nextId' = [nextId EXCEPT !["runs"] = @ + used]
    /\ trace' = trace \o calls
    /\ UNCHANGED <<scope, config_user_id, _voxel_spacings, _picks, _meshes, _segmentations,
                   _tomograms, _features, _objects, transformation_, artifact, last>>

\* The runs property storing nothing: the list the query returned is dropped.
thread_assign_dropped(t) ==
    /\ threads[t].at = "assign"
    /\ ThreadStep(t, [threads[t] EXCEPT !.at = "return"], _runs, backend, 0, <<>>)

\* new_run without its uniqueness check.
thread_check_skipped(t) ==
    /\ threads[t].at = "check"
    /\ ThreadStep(t, [threads[t] EXCEPT !.at = "append"], _runs, backend, 0, <<>>)

\* A thread enters root.runs or root.new_run(name), which reads self.runs:
\* "if self._runs is None".
thread_test(t, op, name) ==
    /\ threads[t].at = "idle"
    /\ ThreadStep(t, [Idle EXCEPT !.op = op, !.name = name,
                                  !.at = IF _runs.some THEN "return" ELSE "query"],
                  _runs, backend, 0, <<>>)

\* The call "self.query()": it returns a new list, or raises.
thread_query(t, q) ==
    /\ threads[t].at = "query"
    /\ IF q = "raise"
       THEN ThreadStep(t, [threads[t] EXCEPT !.at = "raised", !.result = "raise"],
                       _runs, backend, 0, <<"query">>)
       ELSE ThreadStep(t, [threads[t] EXCEPT !.at = "assign", !.local = query("runs")],
                       _runs, backend, Len(backend["runs"]), <<"query">>)

\* The assignment "self._runs = <the list the query returned>".
thread_assign(t) ==
    /\ threads[t].at = "assign"
    /\ ThreadStep(t, [threads[t] EXCEPT !.at = "return"], Some(threads[t].local),
                  backend, 0, <<>>)

\* "return self._runs": to the caller of the property, or to new_run, which
\* takes the names of the list, "[r.name for r in self.runs]".
thread_return(t) ==
    /\ threads[t].at = "return"
    /\ ThreadStep(t, [threads[t] EXCEPT !.ret = _runs,
                                        !.at = IF threads[t].op = "runs"
                                               THEN "done" ELSE "check",
                                        !.result = IF threads[t].op = "runs"
                                                   THEN "ok" ELSE "none"],
                  _runs, backend, 0, <<>>)

\* "if name in [...]: raise ValueError".
thread_check(t) ==
    /\ threads[t].at = "check"
    /\ IF \E i \in 1..Len(threads[t].ret.list) :
             threads[t].ret.list[i].meta.name = threads[t].name
       THEN ThreadStep(t, [threads[t] EXCEPT !.at = "raised",
                                             !.result = "ValueError: already exists"],
                       _runs, backend, 0, <<>>)
       ELSE ThreadStep(t, [threads[t] EXCEPT !.at = "append"], _runs, backend, 0, <<>>)

\* "run = clz(self, meta=rm)", "if self._runs is None: self._runs = []",
\* "self._runs.append(run)".
thread_append(t) ==
    /\ threads[t].at = "append"
    /\ LET run == Construct(factory("runs"), Parent("runs"),
                            [name |-> threads[t].name], nextId["runs"] + 1) IN
       ThreadStep(t, [threads[t] EXCEPT !.at = "ensure", !.local = <<run>>],
                  AppendOnCreate(_runs, run), backend, 1, <<"append">>)

\* "run.ensure(create=True)" and "return run".
thread_ensure(t, p) ==
    /\ threads[t].at = "ensure"
    /\ IF p = "ok"
       THEN ThreadStep(t, [threads[t] EXCEPT !.at = "done", !.result = "ok"], _runs,
                       Persisted("runs", [name |-> threads[t].name]), 0,
                       <<PersistName("runs")>>)
       ELSE ThreadStep(t, [threads[t] EXCEPT !.at = "raised", !.result = "raise"],
                       _runs, backend, 0, <<PersistName("runs")>>)

\* One Root whose runs cache is unpopulated, and two threads that each make
\* one call on it.
InitThreads == Init /\ scope = {"runs"}

NextThreads ==
    \E t \in Threads :
        \/ thread_test(t, "runs", "none")
        \/ \E name \in RunNames : thread_test(t, "new_run", name)
        \/ \E q \in {"list", "raise"} : thread_query(t, q)
        \/ thread_assign(t)
        \/ thread_return(t)
        \/ thread_check(t)
        \/ thread_append(t)
        \/ \E p \in PersistOutcomes : thread_ensure(t, p)

SpecThreads == InitThreads /\ [][NextThreads]_vars

\* ------------------------------------------------ the artifacts of a Run
\* One Run with its picks or its meshes: the entities are listed, created and
\* refreshed, and their artifacts read, set and refreshed.  An entity the
\* backend constructs may be given its artifact at construction.
InitArtifact ==
    /\ scope \in {{"picks"}, {"meshes"}}
    /\ config_user_id = "bob"
    /\ _runs = None
    /\ _voxel_spacings = None
    /\ _picks = None
    /\ _meshes = None
    /\ _segmentations = None
    /\ _tomograms = None
    /\ _features = None
    /\ _objects = None
    /\ backend \in InitBackends(scope)
    /\ nextId = [c \in Collections |-> 0]
    /\ transformation_ = Identity
    /\ threads = [t \in Threads |-> Idle]
    /\ artifact \in [Artifacts -> [1..MaxId -> {NoneVal, Val("data")}]]
    /\ \A c \in Artifacts \ scope : \A i \in 1..MaxId : artifact[c][i] = NoneVal
    /\ trace = <<>>
    /\ last = [op |-> "init", args |-> NoArgs, result |-> "ok", ret |-> <<>>]

NextArtifact ==
    \/ \E c \in Artifacts : \E q \in Q(c) : Property(c, q)
    \/ \E c \in Artifacts, q \in QueryOutcomes :
          Refresh(c, IF c = "picks" THEN "refresh_picks" ELSE "refresh_meshes", q)
    \/ \E s \in SessionIds, q \in Q("picks"), p \in PersistOutcomes :
          new_picks("ribosome", s, NoneStr, q, p)
    \/ \E s \in SessionIds, q \in Q("meshes"), p \in PersistOutcomes :
          new_mesh("ribosome", s, NoneStr, q, p)
    \/ \E c \in Artifacts, i \in 1..MaxId : \E l \in LoadOutcomes(c) :
          artifact_read(c, i, l)
    \/ \E c \in Artifacts, i \in 1..MaxId, v \in {NoneVal, Val("empty"), Val("data")} :
          artifact_setter(c, i, v)
    \/ \E c \in Artifacts, i \in 1..MaxId : \E l \in LoadOutcomes(c) :
          artifact_refresh(c, i, l)

SpecArtifact == InitArtifact /\ [][NextArtifact]_vars

\* ------------------------------------------------------------ properties

\* The entities of a list whose metadata equals meta.
WithMeta(list, meta) == SelectSeq(list, LAMBDA x : x.meta = meta)

\* No two entries of a populated cache have the same metadata record.
NoDuplicates(cache) ==
    \A i, j \in 1..Len(cache.list) : cache.list[i].meta = cache.list[j].meta => i = j

Appended == \E i \in 1..Len(trace) : trace[i] = "append"

PersistCalled ==
    \E i \in 1..Len(trace) : trace[i] \in {"ensure(create=True)", "store", "zarr"}

\* C1: a read of a lazy child collection property whose cache is populated
\* (with the empty list too) calls no backend operation, leaves the cache as
\* it is and returns the cached list; a read of an unpopulated cache calls the
\* collection's query exactly once and, when the query returns a list, stores
\* that list and returns it.  So over reads alone the query runs once.
C1_LazyReadQueriesOnce ==
    [][\A c \in Collections :
          last'.op = c =>
             /\ Cache(c).some =>
                   /\ trace' = <<>>
                   /\ Cache(c)' = Cache(c)
                   /\ last'.result = "ok"
                   /\ last'.ret = Cache(c).list
             /\ ~Cache(c).some =>
                   /\ trace' = <<QueryName(c)>>
                   /\ last'.result = "ok" =>
                         /\ Cache(c)'.some
                         /\ last'.ret = Cache(c)'.list
                         /\ Len(Cache(c)'.list) = Len(backend[c])
                   /\ last'.result # "ok" => Cache(c)' = Cache(c)]_vars

\* C1 witness: a read of a cache populated with the empty list was answered
\* from the cache, with no query.
C1_Witness ==
    /\ last.op \in Collections
    /\ last.result = "ok"
    /\ trace = <<>>
    /\ Cache(last.op) = Some(<<>>)

\* C2: new_run with the name of a run that is in the runs cache fails with the
\* conflict error, calls no backend operation and leaves the cache (its
\* entries, their order and identity) as it was; a successful new_run returns
\* the run it appended; and get_run on the populated cache returns the cached
\* run of that name, so after the conflict it still returns the first run.
C2_DuplicateRunRejected ==
    [][/\ (/\ last'.op = "new_run"
           /\ _runs.some
           /\ first_match(_runs.list, "name", last'.args.name) # <<>>)
          => /\ last'.result = "ValueError: already exists"
             /\ trace' = <<>>
             /\ _runs' = _runs
             /\ backend' = backend
       /\ (last'.op = "new_run" /\ last'.result = "ok")
          => /\ last'.ret = <<_runs'.list[Len(_runs'.list)]>>
             /\ last'.ret[1].meta.name = last'.args.name
       /\ (last'.op = "get_run" /\ _runs.some)
          => /\ last'.ret = first_match(_runs.list, "name", last'.args.name)
             /\ _runs' = _runs
             /\ Len(WithMeta(_runs.list, [name |-> last'.args.name])) <= 1]_vars

\* C2 witness: a second new_run of a name was rejected, with the run of that
\* name, created and persisted by an earlier new_run, still in the cache.
C2_Witness ==
    /\ last.op = "new_run"
    /\ last.result = "ValueError: already exists"
    /\ trace = <<>>
    /\ backend["runs"] = <<[name |-> last.args.name]>>
    /\ Stored("runs") # backend["runs"]
    /\ first_match(_runs.list, "name", last.args.name) # <<>>

\* C3: the picks cache and the meshes cache never hold two entries with the
\* same (pickable_object_name, user_id, session_id); new_picks / new_mesh for
\* a triple (with the resolved user id) that the collection holds fails with
\* the conflict error and appends nothing; and after a successful creation
\* the lookup by the three values returns exactly the created entity, which
\* carries them.
C3_PicksMeshesUnique ==
    \A c \in {"picks", "meshes"} :
       /\ Cache(c).some => NoDuplicates(Cache(c))
       /\ last.op = (IF c = "picks" THEN "new_picks" ELSE "new_mesh") =>
             LET key == [pickable_object_name |-> last.args.object_name,
                         user_id |-> resolve_uid(last.args.user_id),
                         session_id |-> last.args.session_id]
                 found == filter_picks(Cache(c).list, key.pickable_object_name,
                                       key.user_id, key.session_id)
             IN /\ last.result = "ok" =>
                      /\ found = last.ret
                      /\ Len(found) = 1
                      /\ found[1].meta = key
                /\ last.result = "ValueError: already exist" =>
                      /\ Len(found) = 1
                      /\ ~Appended
                /\ Appended => Len(found) = 1

\* C3 witness: a new_picks that repeats the triple of a Picks created and
\* stored by an earlier new_picks was rejected.
C3_Witness ==
    /\ last.op = "new_picks"
    /\ last.result = "ValueError: already exist"
    /\ trace = <<>>
    /\ backend["picks"] = <<[pickable_object_name |-> last.args.object_name,
                             user_id |-> resolve_uid(last.args.user_id),
                             session_id |-> last.args.session_id]>>
    /\ Stored("picks") # backend["picks"]
    /\ Len(_picks.list) = 1

\* The metadata new_segmentation records for the arguments of the last call.
SegKey ==
    [user_id |-> IF last.args.user_id # NoneStr THEN last.args.user_id
                 ELSE config_user_id,
     session_id |-> last.args.session_id, name |-> last.args.name,
     is_multilabel |-> last.args.is_multilabel, voxel_size |-> last.args.voxel_size]

\* C4: the segmentations cache never holds two entries equal in all of
\* (user_id, session_id, name, is_multilabel, voxel_size); new_segmentation is
\* rejected as a conflict only when the collection holds an entry equal to the
\* requested one in all five, and it creates the segmentation only when there
\* is none, so two segmentations that differ in a component are both created.
C4_SegmentationConflictIffEqual ==
    /\ _segmentations.some => NoDuplicates(_segmentations)
    /\ last.op = "new_segmentation" =>
          LET same == WithMeta(_segmentations.list, SegKey) IN
          /\ last.result = "ValueError: already exist" =>
                /\ Len(same) = 1
                /\ ~Appended
          /\ Appended =>
                /\ same = <<_segmentations.list[Len(_segmentations.list)]>>
                /\ last.result = "ok" => last.ret = same
          /\ (/\ last.args.is_multilabel \/ last.args.name \in pickable_objects
              /\ _voxel_spacings.some
              /\ \E i \in 1..Len(_voxel_spacings.list) :
                    _voxel_spacings.list[i].meta.voxel_size = last.args.voxel_size
              /\ SegKey.user_id # NoneStr
              /\ _segmentations.some)
             => (last.result = "ValueError: already exist" \/ Appended)

\* C4 witness: a segmentation was created while the collection held one that
\* differs from it in is_multilabel alone, both with their array store.
C4_Witness ==
    /\ last.op = "new_segmentation"
    /\ last.result = "ok"
    /\ \E i \in 1..Len(_segmentations.list) :
          /\ _segmentations.list[i].meta =
                [last.ret[1].meta EXCEPT !.is_multilabel = ~last.ret[1].meta.is_multilabel]
          /\ Holds("segmentations", _segmentations.list[i].meta)
    /\ Holds("segmentations", last.ret[1].meta)

\* The creation operations with a one-field key: operation, collection, field.
KeyedNew ==
    {[op |-> "new_voxel_spacing", c |-> "voxel_spacings", field |-> "voxel_size"],
     [op |-> "new_tomogram", c |-> "tomograms", field |-> "tomo_type"],
     [op |-> "new_features", c |-> "features", field |-> "feature_type"]}

\* The metadata of the children a parent has: of the cache when it is
\* populated, of the backend's listing otherwise.
Known(c) ==
    IF Cache(c).some
    THEN [i \in 1..Len(Cache(c).list) |-> Cache(c).list[i].meta]
    ELSE backend[c]

QueryRaised(c) == last.result = "raise" /\ trace[Len(trace)] = QueryName(c)

\* C5: new_voxel_spacing, new_tomogram and new_features with a key the
\* parent's child collection has fail with the conflict error, make no
\* persistence call and append nothing; a populated cache is left as it was
\* (entries, order, identity), an unpopulated one is loaded with the backend's
\* listing and nothing more.
C5_DuplicateKeyRejected ==
    [][\A k \in KeyedNew :
          (/\ last'.op = k.op
           /\ ~QueryRaised(k.c)'
           /\ \E i \in 1..Len(Known(k.c)) : Known(k.c)[i][k.field] = last'.args[k.field])
          => /\ last'.result = "ValueError: already exists"
             /\ ~PersistCalled'
             /\ ~Appended'
             /\ backend' = backend
             /\ Cache(k.c).some => Cache(k.c)' = Cache(k.c)
             /\ Known(k.c)' = Known(k.c)]_vars

\* C5 witness: a new_tomogram of a tomo_type created and persisted by an
\* earlier new_tomogram was rejected.
C5_Witness ==
    /\ last.op = "new_tomogram"
    /\ last.result = "ValueError: already exists"
    /\ trace = <<>>
    /\ backend["tomograms"] = <<[tomo_type |-> last.args.tomo_type]>>
    /\ Stored("tomograms") # backend["tomograms"]
    /\ first_match(_tomograms.list, "tomo_type", last.args.tomo_type) # <<>>

\* C6: new_picks and new_mesh with an object name that is not a configured
\* pickable object fail with the object name error whatever user_id and
\* session_id are, call no backend operation and change no cache, the
\* populated status included.
C6_UnknownObjectRejected ==
    [][(/\ last'.op \in {"new_picks", "new_mesh"}
        /\ last'.args.object_name \notin pickable_objects)
       => /\ last'.result = "ValueError: object name not found"
          /\ trace' = <<>>
          /\ UNCHANGED <<_runs, _voxel_spacings, _picks, _meshes, _segmentations,
                         _tomograms, _features, backend, nextId>>]_vars

\* C6 witness: new_mesh with an unknown object name and no user id at all was
\* rejected for its object name, the cache still unpopulated.
C6_Witness ==
    /\ last.op = "new_mesh"
    /\ last.args.object_name \notin pickable_objects
    /\ last.args.user_id = NoneStr
    /\ config_user_id = NoneStr
    /\ last.result = "ValueError: object name not found"
    /\ ~_meshes.some

\* C7: new_segmentation with a voxel_size that no VoxelSpacing of the Run has
\* fails with a ValueError for every combination of the other arguments (the
\* voxel size error whenever the name check passes, a multilabel segmentation
\* of any name included), appends nothing to the segmentations cache and
\* creates no array store.  (When the voxel spacings query itself raises the
\* call ends with that exception, and also creates nothing.)
C7_UnknownVoxelSizeRejected ==
    [][(/\ last'.op = "new_segmentation"
        /\ \A i \in 1..Len(Known("voxel_spacings")) :
              Known("voxel_spacings")[i].voxel_size # last'.args.voxel_size)
       => /\ \/ last'.result = "ValueError: voxel size not found"
             \/ /\ last'.result = "ValueError: object name not found"
                /\ ~last'.args.is_multilabel
                /\ last'.args.name \notin pickable_objects
             \/ QueryRaised("voxel_spacings")'
          /\ _segmentations' = _segmentations
          /\ backend' = backend
          /\ ~Appended'
          /\ ~PersistCalled']_vars

\* C7 witness: a multilabel segmentation with a name that is no pickable
\* object was rejected for its voxel size.
C7_Witness ==
    /\ last.op = "new_segmentation"
    /\ last.args.is_multilabel
    /\ last.args.name \notin pickable_objects
    /\ last.result = "ValueError: voxel size not found"

\* C8: a single-label new_segmentation whose name is no pickable object is
\* rejected with the object name error before anything else happens; a
\* multilabel one is not checked for its name: with a voxel size the Run has,
\* a user id and a key the collection does not hold, it passes every check and
\* the segmentation is created under the given name.
C8_NameCheckedForSingleLabelOnly ==
    [][last'.op = "new_segmentation" =>
          /\ (~last'.args.is_multilabel /\ last'.args.name \notin pickable_objects)
             => /\ last'.result = "ValueError: object name not found"
                /\ trace' = <<>>
                /\ UNCHANGED <<_voxel_spacings, _segmentations, backend>>
          /\ (/\ last'.args.is_multilabel
              /\ \E i \in 1..Len(Known("voxel_spacings")) :
                    Known("voxel_spacings")[i].voxel_size = last'.args.voxel_size
              /\ SegKey'.user_id # NoneStr
              /\ \A i \in 1..Len(Known("segmentations")) :
                    Known("segmentations")[i] # SegKey')
             => /\ last'.result \in {"ok", "raise"}
                /\ last'.result = "raise" =>
                      trace'[Len(trace')] \in {"query_voxelspacings",
                                               "query_segmentations", "zarr"}
                /\ last'.result = "ok" =>
                      /\ last'.ret[1].meta = SegKey'
                      /\ _segmentations'.list[Len(_segmentations'.list)] = last'.ret[1]
                      /\ Holds("segmentations", SegKey)']_vars

\* C8 witness: a multilabel segmentation with a name that is no pickable
\* object was created.
C8_Witness ==
    /\ last.op = "new_segmentation"
    /\ last.args.is_multilabel
    /\ last.args.name \notin pickable_objects
    /\ last.result = "ok"
    /\ last.ret[1].meta.name = last.args.name

\* The creation operations that record a user id, with their collection.
UserNew ==
    {[op |-> "new_picks", c |-> "picks"], [op |-> "new_mesh", c |-> "meshes"],
     [op |-> "new_segmentation", c |-> "segmentations"]}

\* The user id in effect for the last call: the argument when it was given,
\* the Root's configured one otherwise.
EffectiveUser ==
    IF last.args.user_id # NoneStr THEN last.args.user_id ELSE config_user_id

\* C9: the user id new_picks, new_mesh and new_segmentation record on the
\* entity and use in the uniqueness check is the user_id argument when one is
\* given (whatever the Root has configured) and the Root's configured user id
\* otherwise; with neither, nothing is created and the call fails with a
\* ValueError (new_segmentation may end with the exception of the voxel
\* spacings query it makes before it looks at the user id).
C9_EffectiveUserId ==
    \A k \in UserNew :
       last.op = k.op =>
          LET list == Cache(k.c).list
              mine == SelectSeq(list, LAMBDA x :
                         /\ x.meta.user_id = EffectiveUser
                         /\ x.meta.session_id = last.args.session_id
                         /\ IF k.c = "segmentations"
                            THEN /\ x.meta.name = last.args.name
                                 /\ x.meta.is_multilabel = last.args.is_multilabel
                                 /\ x.meta.voxel_size = last.args.voxel_size
                            ELSE x.meta.pickable_object_name = last.args.object_name)
          IN /\ Appended =>
                   /\ list[Len(list)].meta.user_id = EffectiveUser
                   /\ mine = <<list[Len(list)]>>
             /\ last.result = "ok" => last.ret[1].meta.user_id = EffectiveUser
             /\ last.result = "ValueError: already exist" => Len(mine) = 1
             /\ EffectiveUser = NoneStr =>
                   /\ ~Appended
                   /\ ~PersistCalled
                   /\ \/ last.result \in {"ValueError: user id must be set",
                                          "ValueError: object name not found",
                                          "ValueError: voxel size not found"}
                      \/ k.c = "segmentations" /\ QueryRaised("voxel_spacings")

\* C9 witness: an entity was created for the user id given in the call while
\* the Root has another one configured.
C9_Witness ==
    /\ last.op \in {"new_picks", "new_mesh", "new_segmentation"}
    /\ last.result = "ok"
    /\ last.args.user_id # NoneStr
    /\ config_user_id # NoneStr
    /\ config_user_id # last.args.user_id
    /\ last.ret[1].meta.user_id = last.args.user_id

\* C10: with no user id, as argument or configured, new_picks, new_mesh and
\* new_segmentation on a Run whose four caches are all unpopulated fail
\* without any backend call.
C10_NoBackendCallWithoutUserId ==
    [][(/\ last'.op \in {"new_picks", "new_mesh", "new_segmentation"}
        /\ last'.args.user_id = NoneStr
        /\ config_user_id = NoneStr
        /\ ~_voxel_spacings.some /\ ~_picks.some
        /\ ~_meshes.some /\ ~_segmentations.some)
       => /\ last'.result # "ok"
          /\ trace' = <<>>]_vars

\* The creation operations, with the collection they append to.
NewOps ==
    {[op |-> "new_run", c |-> "runs"],
     [op |-> "new_voxel_spacing", c |-> "voxel_spacings"],
     [op |-> "new_picks", c |-> "picks"], [op |-> "new_mesh", c |-> "meshes"],
     [op |-> "new_segmentation", c |-> "segmentations"],
     [op |-> "new_tomogram", c |-> "tomograms"],
     [op |-> "new_features", c |-> "features"]}

\* C11: in every creation operation the persistence call for the new entity
\* (ensure(create=True), store or zarr) comes before the append of the entity
\* to the parent's cache.
C11_PersistBeforeAppend ==
    \A k \in NewOps :
       last.op = k.op =>
          \A i, j \in 1..Len(trace) :
             (trace[i] = "append" /\ trace[j] = PersistName(k.c)) => j < i

\* C12: when the persistence call of a creation operation raises, the parent's
\* cache holds the entries the collection held before the call, and no more.
C12_FailedPersistLeavesCache ==
    [][\A k \in NewOps :
          (/\ last'.op = k.op
           /\ last'.result = "raise"
           /\ trace'[Len(trace')] = PersistName(k.c))
          => Known(k.c)' = Known(k.c)]_vars

\* The number of calls of the query of collection c in the last operation.
Queries(c) == Len(SelectSeq(trace, LAMBDA x : x = QueryName(c)))

ReqKey(op, a) ==
    CASE op = "new_run" -> [name |-> a.name]
      [] op = "new_voxel_spacing" -> [voxel_size |-> a.voxel_size]
      [] op = "new_tomogram" -> [tomo_type |-> a.tomo_type]
      [] op = "new_features" -> [tomo_type |-> tomo_type, feature_type |-> a.feature_type]
      [] op \in {"new_picks", "new_mesh"} ->
           [pickable_object_name |-> a.object_name,
            user_id |-> IF a.user_id # NoneStr THEN a.user_id ELSE config_user_id,
            session_id |-> a.session_id]
      [] op = "new_segmentation" ->
           [user_id |-> IF a.user_id # NoneStr THEN a.user_id ELSE config_user_id,
            session_id |-> a.session_id, name |-> a.name,
            is_multilabel |-> a.is_multilabel, voxel_size |-> a.voxel_size]

\* The arguments a pass the checks that come before the uniqueness check.
PassesValidation(op, a) ==
    CASE op \in {"new_picks", "new_mesh"} ->
           /\ a.object_name \in pickable_objects
           /\ ReqKey(op, a).user_id # NoneStr
      [] op = "new_segmentation" ->
           /\ a.is_multilabel \/ a.name \in pickable_objects
           /\ \E i \in 1..Len(Known("voxel_spacings")) :
                 Known("voxel_spacings")[i].voxel_size = a.voxel_size
           /\ ReqKey(op, a).user_id # NoneStr
      [] OTHER -> TRUE

\* C14: a creation operation called on an unpopulated cache with a key the
\* backend's listing holds reads the collection through the lazy property: it
\* makes the collection's query once, stores the loaded entries and rejects
\* the call as a conflict, appending and persisting nothing.  (A query that
\* raises ends the call with its exception.)
C14_ConflictFoundByLoading ==
    [][\A k \in NewOps :
          (/\ last'.op = k.op
           /\ ~Cache(k.c).some
           /\ PassesValidation(k.op, last'.args)
           /\ Holds(k.c, ReqKey(k.op, last'.args)))
          => \/ last'.result = "raise" /\ ~Appended' /\ Cache(k.c)' = Cache(k.c)
             \/ /\ Queries(k.c)' = 1
                /\ last'.result \in {"ValueError: already exists",
                                     "ValueError: already exist"}
                /\ ~Appended'
                /\ ~PersistCalled'
                /\ Cache(k.c)'.some
                /\ Known(k.c)' = backend[k.c]
                /\ backend' = backend]_vars

\* C14 witness: new_segmentation on an unpopulated segmentations cache was
\* rejected for a key that only the backend's listing held.
C14_Witness ==
    /\ last.op = "new_segmentation"
    /\ last.result = "ValueError: already exist"
    /\ Queries("segmentations") = 1
    /\ Known("segmentations") = backend["segmentations"]

\* The lookups with random access, with their collection and key field.
RandomAccess ==
    {[op |-> "get_run", c |-> "runs", field |-> "name"],
     [op |-> "get_voxel_spacing", c |-> "voxel_spacings", field |-> "voxel_size"]}

\* C15: get_run and get_voxel_spacing on an unpopulated cache make exactly one
\* ensure(create=False) call and no query, leave every cache (the unpopulated
\* one included) and the backend as they were, and return an instance with the
\* requested key exactly when the backend has the record, None otherwise; the
\* instance is a new object that is in no cache.
C15_RandomAccessLookup ==
    [][\A k \in RandomAccess :
          (last'.op = k.op /\ ~Cache(k.c).some)
          => /\ trace' = <<"ensure(create=False)">>
             /\ UNCHANGED <<_runs, _voxel_spacings, _picks, _meshes, _segmentations,
                            _tomograms, _features, backend>>
             /\ last'.result = "ok" =>
                   /\ last'.ret # <<>> <=>
                         \E i \in 1..Len(backend[k.c]) :
                            backend[k.c][i][k.field] = last'.args[k.field]
                   /\ last'.ret # <<>> =>
                         /\ last'.ret[1].meta[k.field] = last'.args[k.field]
                         /\ last'.ret[1].id > nextId[k.c]]_vars

\* C15 witness: get_run on an unpopulated cache returned an instance for a run
\* the backend has, and the cache is still unpopulated.
C15_Witness ==
    /\ last.op = "get_run"
    /\ last.result = "ok"
    /\ last.ret # <<>>
    /\ trace = <<"ensure(create=False)">>
    /\ ~_runs.some

\* The lookups that scan the children property, with their collection.
ScanLookups ==
    {[op |-> "get_tomogram", c |-> "tomograms", field |-> "tomo_type"],
     [op |-> "get_features", c |-> "features", field |-> "feature_type"]}

\* C16: get_tomogram and get_features on an unpopulated cache do not make the
\* listing query (query_tomograms / query_features) and leave the cache
\* unpopulated.
C16_TargetedLookupNoListing ==
    [][\A k \in ScanLookups :
          (last'.op = k.op /\ ~Cache(k.c).some)
          => /\ Queries(k.c)' = 0
             /\ ~Cache(k.c)'.some]_vars

\* The first entity of a list whose key field has the value, as a one-element
\* sequence; the empty sequence (None) when the list has none.
FirstWithKey(list, field, value) ==
    LET idx == {i \in 1..Len(list) : list[i].meta[field] = value} IN
    IF idx = {}
    THEN <<>>
    ELSE <<list[CHOOSE i \in idx : \A j \in idx : i <= j]>>

\* C17: on a populated cache get_run, get_voxel_spacing, get_tomogram,
\* get_features and get_object return the first cached entity with the
\* requested key, and None when the cache has none; either way without an
\* exception, without a backend call and with every cache and the backend
\* left as they were.
C17_LookupOnPopulatedCache ==
    [][/\ \A k \in RandomAccess \cup ScanLookups :
             (last'.op = k.op /\ Cache(k.c).some)
             => /\ last'.result = "ok"
                /\ last'.ret = FirstWithKey(Cache(k.c).list, k.field, last'.args[k.field])
                /\ trace' = <<>>
                /\ UNCHANGED <<_runs, _voxel_spacings, _picks, _meshes, _segmentations,
                               _tomograms, _features, _objects, backend>>
       /\ (last'.op = "get_object" /\ _objects.some)
          => /\ last'.result = "ok"
             /\ last'.ret = FirstWithKey(_objects.list, "name", last'.args.name)
             /\ trace' = <<>>
             /\ UNCHANGED <<_runs, _voxel_spacings, _picks, _meshes, _segmentations,
                            _tomograms, _features, _objects, backend>>]_vars

\* C17 witness: get_tomogram on a populated, non-empty cache that has no
\* tomogram of the requested type returned None.
C17_Witness ==
    /\ last.op = "get_tomogram"
    /\ last.result = "ok"
    /\ last.ret = <<>>
    /\ trace = <<>>
    /\ _tomograms.some
    /\ _tomograms.list # <<>>

\* The picks / meshes filters applied one after the other in the opposite
\* order: session_id, user_id, object_name.
PicksFiltersReversed(list, a) ==
    LET r1 == IF a.session_id # NoneStr
              THEN SelectSeq(list, LAMBDA x : x.meta.session_id = a.session_id)
              ELSE list
        r2 == IF a.user_id # NoneStr
              THEN SelectSeq(r1, LAMBDA x : x.meta.user_id = a.user_id)
              ELSE r1
    IN  IF a.object_name # NoneStr
        THEN SelectSeq(r2, LAMBDA x : x.meta.pickable_object_name = a.object_name)
        ELSE r2

\* The entries of a segmentation list that match every filter of a that is
\* not None, in list order.
SegsMatchingAll(list, a) ==
    SelectSeq(list, LAMBDA x :
        /\ a.user_id # NoneStr => x.meta.user_id = a.user_id
        /\ a.session_id # NoneStr => x.meta.session_id = a.session_id
        /\ a.is_multilabel # NoneVal => x.meta.is_multilabel = a.is_multilabel[1]
        /\ a.name # NoneStr => x.meta.name = a.name
        /\ a.voxel_size # NoneVal => x.meta.voxel_size = a.voxel_size[1])

\* C18: get_picks, get_meshes and get_segmentations return, in collection
\* order, exactly the entries of the Run's collection that match every filter
\* that is not None; applying the filters in the opposite order gives the same
\* list, and a call without any filter returns the whole collection.
C18_FiltersSelectMatchingEntries ==
    /\ \A k \in {[op |-> "get_picks", c |-> "picks"], [op |-> "get_meshes", c |-> "meshes"]} :
          (last.op = k.op /\ last.result = "ok")
          => LET list == Cache(k.c).list
                 a == last.args
             IN /\ Cache(k.c).some
                /\ last.ret =
                      SelectSeq(list, LAMBDA x :
                         /\ a.object_name # NoneStr =>
                               x.meta.pickable_object_name = a.object_name
                         /\ a.user_id # NoneStr => x.meta.user_id = a.user_id
                         /\ a.session_id # NoneStr => x.meta.session_id = a.session_id)
                /\ last.ret = PicksFiltersReversed(list, a)
                /\ (a.object_name = NoneStr /\ a.user_id = NoneStr
                       /\ a.session_id = NoneStr) => last.ret = list
    /\ (last.op = "get_segmentations" /\ last.result = "ok")
       => /\ _segmentations.some
          /\ last.ret = SegsMatchingAll(_segmentations.list, last.args)
          /\ last.args = GetSegNone => last.ret = _segmentations.list

\* C18 witness: get_picks with two filters returned a proper, non-empty part
\* of the picks.
C18_Witness ==
    /\ last.op = "get_picks"
    /\ last.result = "ok"
    /\ last.args.object_name # NoneStr
    /\ last.args.session_id # NoneStr
    /\ last.args.user_id = NoneStr
    /\ last.ret # <<>>
    /\ Len(last.ret) < Len(_picks.list)

\* The cache of collection c holds new objects for exactly the records the
\* backend listed before the step, in the backend's order.
Reloaded(c) ==
    /\ Cache(c)'.some
    /\ Known(c)' = backend[c]
    /\ \A j \in 1..Len(Cache(c)'.list) : Cache(c)'.list[j].id > nextId[c]

\* C19: Run.refresh calls query_voxelspacings, query_picks, query_meshes and
\* query_segmentations in this order, each at most once and none after one
\* that raised, whatever the caches held; when it returns it has called all
\* four, and each of the four caches holds what its query returned.
C19_RunRefreshQueriesInOrder ==
    [][last'.op = "CopickRun.refresh" =>
          /\ \E n \in 1..Len(RunOrder) :
                trace' = [i \in 1..n |-> QueryName(RunOrder[i])]
          /\ backend' = backend
          /\ last'.result = "ok" =>
                /\ trace' = <<"query_voxelspacings", "query_picks", "query_meshes",
                              "query_segmentations">>
                /\ \A i \in 1..Len(RunOrder) : Reloaded(RunOrder[i])]_vars

\* C19 witness: Run.refresh returned and the picks cache, which held its
\* entry as another object before, holds the one of this refresh.
C19_Witness ==
    /\ last.op = "CopickRun.refresh"
    /\ last.result = "ok"
    /\ Len(trace) = 4
    /\ _voxel_spacings.some /\ _meshes.some /\ _segmentations.some
    /\ Len(_picks.list) = 1
    /\ _picks.list[1].id = 2

\* The refresh operations of one collection.
RefreshOps ==
    {[op |-> "CopickRoot.refresh", c |-> "runs"],
     [op |-> "refresh_voxel_spacings", c |-> "voxel_spacings"],
     [op |-> "refresh_picks", c |-> "picks"],
     [op |-> "refresh_meshes", c |-> "meshes"],
     [op |-> "refresh_segmentations", c |-> "segmentations"],
     [op |-> "refresh_tomograms", c |-> "tomograms"],
     [op |-> "refresh_features", c |-> "features"]}

\* C20: every refresh operation calls its query exactly once, whether the
\* cache is populated or not, and replaces the cache by what the query
\* returned, so that an entity that is in the cache but not in the query
\* result is no longer in the collection.  (When the query raises nothing is
\* assigned.)
C20_RefreshReplacesCache ==
    [][\A k \in RefreshOps :
          last'.op = k.op =>
             /\ trace' = <<QueryName(k.c)>>
             /\ backend' = backend
             /\ last'.result = "ok" => Reloaded(k.c)
             /\ last'.result # "ok" => Cache(k.c)' = Cache(k.c)]_vars

\* C20 witness: refresh_picks emptied a picks cache: the backend lists no
\* picks, and the Picks constructed before (by a new_picks whose store call
\* failed) is gone.
C20_Witness ==
    /\ last.op = "refresh_picks"
    /\ last.result = "ok"
    /\ backend["picks"] = <<>>
    /\ nextId["picks"] >= 1
    /\ _picks = Some(<<>>)

\* C21: every abstract Backend Contract operation of the base classes, called
\* with no implementation behind it, ends with NotImplementedError and returns
\* no value.
C21_AbstractOpsNotImplemented ==
    last.op \in AbstractOps => last.result = "NotImplementedError"

\* C22: a Root constructed from a Config whose runs list is set has its runs
\* cache populated right after construction, with one distinct Run per listed
\* name in list order, no backend call having been made, and the four child
\* caches of the Runs it constructed are unpopulated; with no runs list the
\* runs cache is unpopulated.
C22_RootRunsFromConfig ==
    last.op = "CopickRoot.__init__" =>
        LET config_runs == last.args.config[1].runs IN
        /\ last.result = "ok"
        /\ trace = <<>>
        /\ ~config_runs.some => _runs = None
        /\ config_runs.some =>
              /\ _runs.some
              /\ Len(_runs.list) = Len(config_runs.list)
              /\ \A i \in 1..Len(_runs.list) :
                    /\ _runs.list[i].meta = [name |-> config_runs.list[i]]
                    /\ \A j \in 1..Len(_runs.list) :
                          _runs.list[i].id = _runs.list[j].id => i = j
              /\ config_runs.list # <<>> =>
                    /\ _voxel_spacings = None
                    /\ _picks = None
                    /\ _meshes = None
                    /\ _segmentations = None

\* C22 witness: a Root just constructed from a Config listing two run names.
C22_Witness ==
    /\ last.op = "CopickRoot.__init__"
    /\ last.args.config[1].runs = Some(<<"TS_001", "TS_002">>)
    /\ Len(_runs.list) = 2
    /\ _voxel_spacings = None

\* C23: a Run constructed with a Config is constructed (no exception) and has
\* populated caches: one VoxelSpacing per voxel size of config.tomograms, and
\* the pre-declared picks, meshes and segmentations in its picks, meshes and
\* segmentations caches, each with session_id "0"; no backend call is made.
C23_RunFromConfig ==
    (last.op = "CopickRun.__init__" /\ last.args.config # <<>>) =>
        LET cfg == last.args.config[1]
            tools(cache) == [i \in 1..Len(cache.list) |-> cache.list[i].meta.user_id]
        IN  /\ last.result = "ok"
            /\ trace = <<>>
            /\ _voxel_spacings.some
            /\ [i \in 1..Len(_voxel_spacings.list) |->
                   _voxel_spacings.list[i].meta.voxel_size] = cfg.tomograms
            /\ _picks.some /\ tools(_picks) = cfg.pre_picks
            /\ _meshes.some /\ tools(_meshes) = cfg.pre_meshes
            /\ _segmentations.some /\ tools(_segmentations) = cfg.pre_segmentations
            /\ \A c \in {"picks", "meshes", "segmentations"} :
                  \A i \in 1..Len(Cache(c).list) : Cache(c).list[i].meta.session_id = "0"

\* C24: a Root whose runs came from config.runs cannot be told from one whose
\* runs came from the backend query: every run in the runs cache is of the
\* class the implementation's _run_factory returns, and ensure on it is
\* answered by the backend.
C24_ConfigRunsIndistinguishable ==
    /\ _runs.some => \A i \in 1..Len(_runs.list) : _runs.list[i].cls = factory("runs")
    /\ last.op = "CopickRun.ensure" => last.result # "NotImplementedError"

\* C25: no two runs in the Root's populated runs cache have the same name.
C25_RunNamesUnique ==
    _runs.some =>
        \A i, j \in 1..Len(_runs.list) :
            _runs.list[i].meta.name = _runs.list[j].meta.name => i = j

\* C26: no dangling references.  Every cached Picks and Mesh names a pickable
\* object of the Root's Config, every cached single-label Segmentation names
\* one, every cached Segmentation has the voxel size of one of the Run's
\* cached voxel spacings, and a read of color on a cached entity never fails.
C26_NoDanglingReferences ==
    /\ \A c \in {"picks", "meshes"} :
          \A i \in 1..Len(Cache(c).list) :
              Cache(c).list[i].meta.pickable_object_name \in pickable_objects
    /\ \A i \in 1..Len(_segmentations.list) :
          LET seg == _segmentations.list[i].meta IN
          /\ ~seg.is_multilabel => seg.name \in pickable_objects
          /\ _voxel_spacings.some =>
                \E j \in 1..Len(_voxel_spacings.list) :
                    _voxel_spacings.list[j].meta.voxel_size = seg.voxel_size
    /\ last.op = "color" => last.result = "ok"

\* The lookup by key that belongs to each creation operation.
LookupOf ==
    {[new |-> "new_run", get |-> "get_run", c |-> "runs"],
     [new |-> "new_voxel_spacing", get |-> "get_voxel_spacing", c |-> "voxel_spacings"],
     [new |-> "new_tomogram", get |-> "get_tomogram", c |-> "tomograms"],
     [new |-> "new_features", get |-> "get_features", c |-> "features"],
     [new |-> "new_picks", get |-> "get_picks", c |-> "picks"],
     [new |-> "new_mesh", get |-> "get_meshes", c |-> "meshes"],
     [new |-> "new_segmentation", get |-> "get_segmentations", c |-> "segmentations"]}

\* The arguments of the lookup for the key of an entity with metadata m.
LookupArgs(get, m) ==
    CASE get = "get_run" -> [name |-> m.name]
      [] get = "get_voxel_spacing" -> [voxel_size |-> m.voxel_size]
      [] get = "get_tomogram" -> [tomo_type |-> m.tomo_type]
      [] get = "get_features" -> [feature_type |-> m.feature_type]
      [] get \in {"get_picks", "get_meshes"} ->
           [object_name |-> m.pickable_object_name, user_id |-> m.user_id,
            session_id |-> m.session_id]
      [] get = "get_segmentations" ->
           [user_id |-> m.user_id, session_id |-> m.session_id,
            is_multilabel |-> Val(m.is_multilabel), name |-> m.name,
            voxel_size |-> Val(m.voxel_size)]

\* C27: a creation operation that succeeds returns one entity, whose
\* back-reference is the parent it was called on and which the parent's cache
\* holds exactly once; and the lookup with the entity's key, called next,
\* returns that same object.
C27_CreatedEntityAttached ==
    [][\A k \in LookupOf :
          /\ (last'.op = k.new /\ last'.result = "ok") =>
                /\ Len(last'.ret) = 1
                /\ last'.ret[1].parent = Parent(k.c)
                /\ Cache(k.c)'.some
                /\ Cardinality({i \in 1..Len(Cache(k.c)'.list) :
                                   Cache(k.c)'.list[i].id = last'.ret[1].id}) = 1
                /\ \E i \in 1..Len(Cache(k.c)'.list) : Cache(k.c)'.list[i] = last'.ret[1]
          /\ (/\ last.op = k.new
              /\ last.result = "ok"
              /\ last'.op = k.get
              /\ last'.args = LookupArgs(k.get, last.ret[1].meta))
             => /\ last'.result = "ok"
                /\ last'.ret = last.ret]_vars

\* C27 witness: new_segmentation succeeded on a cache that held another
\* segmentation, and the cache holds the returned object last.
C27_Witness ==
    /\ last.op = "new_segmentation"
    /\ last.result = "ok"
    /\ Len(_segmentations.list) = 2
    /\ _segmentations.list[2] = last.ret[1]
    /\ last.ret[1].parent = "run"

\* C28: user_picks, user_meshes and user_segmentations return exactly the
\* entries of the collection whose session_id is not "0", and tool_picks,
\* tool_meshes and tool_segmentations exactly those whose session_id is "0",
\* whether the Root has a user id configured or not.
C28_UserToolPartition ==
    \A k \in UserTool :
        /\ (last.op = k.user /\ last.result = "ok") =>
              last.ret = SelectSeq(Cache(k.c).list, LAMBDA x : x.meta.session_id # "0")
        /\ (last.op = k.tool /\ last.result = "ok") =>
              last.ret = SelectSeq(Cache(k.c).list, LAMBDA x : x.meta.session_id = "0")

\* C29: the color of a Segmentation is the fixed neutral value when it is
\* multilabel, whatever its name and the Root's pickable objects, and the
\* color of the Root's pickable object of the segmentation's name when it is
\* single-label.
C29_SegmentationColor ==
    (last.op = "color" /\ last.args.c = "segmentations") =>
        LET seg == _segmentations.list[last.args.i].meta IN
        /\ last.result = "ok"
        /\ seg.is_multilabel => last.ret = <<<<128, 128, 128, 0>>>>
        /\ ~seg.is_multilabel =>
              \E j \in 1..Len(config_pickable_objects) :
                  /\ config_pickable_objects[j].name = seg.name
                  /\ last.ret = <<config_pickable_objects[j].color>>

\* C30: the construction of a PickableObject succeeds, the object carrying the
\* label it was given, for every integer label other than 0 and for an absent
\* label, and fails for the label 0.
C30_LabelZeroRejected ==
    last.op = "PickableObject" =>
        /\ last.args.label = <<0>> => last.result = "ValidationError" /\ last.ret = <<>>
        /\ last.args.label # <<0>> /\ last.args.color = <<>> =>
              /\ last.result = "ok"
              /\ last.ret[1].label = last.args.label

\* C30 witness: a PickableObject was constructed with a negative label.
C30_Witness ==
    /\ last.op = "PickableObject"
    /\ last.args.label = <<-1>>
    /\ last.args.color = <<>>
    /\ last.result = "ok"

\* C31: the construction of a PickableObject (its other fields valid) succeeds
\* and stores the color unchanged for every tuple of 4 integers in 0..255,
\* and fails for every tuple of another length and for every tuple with a
\* component below 0 or above 255.
C31_ColorValidated ==
    last.op = "PickableObject" /\ last.args.label # <<0>> /\ last.args.color # <<>> =>
        LET v == last.args.color[1]
            valid == Len(v) = 4 /\ \A k \in 1..Len(v) : v[k] \in 0..255
        IN /\ valid => last.result = "ok" /\ last.ret[1].color = <<v>>
           /\ ~valid => last.result = "ValidationError" /\ last.ret = <<>>

\* C31 witness: a PickableObject was constructed with a color at the limits of
\* the range.
C31_Witness ==
    /\ last.op = "PickableObject"
    /\ last.args.color = <<<<0, 255, 255, 0>>>>
    /\ last.args.label = <<1>>
    /\ last.result = "ok"

\* A 4x4 array whose last element is exactly 1.0 and whose bottom row is
\* [0, 0, 0, 1] within the tolerance of 1e-08.
ProperMatrix(M) ==
    /\ M.shape = <<4, 4>>
    /\ M.flat[16] = One
    /\ \A j \in 13..15 : M.flat[j] \in (0 - 1)..1

\* C32: assigning a Point's transformation a 4x4 matrix M whose bottom row is
\* [0, 0, 0, 1] (the last element exactly 1.0) succeeds and a following read returns M; assigning any other
\* matrix fails and leaves the stored transformation as it was; the
\* construction applies the same rule, and a Point constructed without a
\* transformation has the identity matrix.
C32_TransformationRoundTrip ==
    [][/\ last'.op = "CopickPoint.transformation.setter" =>
            LET M == last'.args.value
                proper == ProperMatrix(M)
            IN /\ proper => last'.result = "ok" /\ np_array(transformation_') = M
               /\ ~proper => last'.result # "ok" /\ transformation_' = transformation_
       /\ last'.op = "CopickPoint" /\ last'.args.transformation_ # <<>> =>
            LET M == np_array(last'.args.transformation_[1])
                proper == ProperMatrix(M)
            IN /\ proper => last'.result = "ok" /\ np_array(transformation_') = M
               /\ ~proper => last'.result # "ok"
       /\ last'.op = "CopickPoint" /\ last'.args.transformation_ = <<>> =>
            last'.result = "ok" /\ transformation_' = Identity
       /\ last'.op = "CopickPoint.transformation" =>
            last'.ret = <<np_array(transformation_)>>]_vars

\* The reads of an artifact.
ArtifactReads == {"CopickPicks.points", "CopickMesh.mesh"}

\* C33: a read of points or mesh calls _load if and only if the value is not
\* set; a set value (by the setter, at construction, or by an earlier load,
\* an empty value included) is returned without a _load and stays; a value
\* that a load returns is stored and returned; and the Mesh that new_mesh
\* returns holds an empty geometry.
C33_ArtifactLoadedOnFirstRead ==
    [][/\ last'.op \in ArtifactReads =>
            LET c == IF last'.op = "CopickPicks.points" THEN "picks" ELSE "meshes"
                before == artifact[c][last'.args.id]
                after == artifact'[c][last'.args.id]
            IN /\ trace' = (IF before = NoneVal THEN <<"_load">> ELSE <<>>)
               /\ before # NoneVal =>
                     last'.result = "ok" /\ last'.ret = before /\ after = before
               /\ before = NoneVal /\ last'.result = "ok" => after = last'.ret
               /\ before = NoneVal /\ last'.result # "ok" => after = NoneVal
       /\ last'.op = "new_mesh" /\ last'.result = "ok" =>
            artifact'["meshes"][last'.ret[1].id] = Val("empty")]_vars

\* C33 witness: the empty geometry of a Mesh that new_mesh created is read,
\* without a load.
C33_Witness ==
    /\ last.op = "CopickMesh.mesh"
    /\ last.ret = Val("empty")
    /\ trace = <<>>
    /\ \E k \in 1..Len(backend["meshes"]) : backend["meshes"][k].session_id = "1"

\* C34: a populated child cache stays populated in every step, and an
\* operation other than a refresh makes no query for a collection whose cache
\* is populated, the empty cache included.
C34_PopulatedStable ==
    [][\A c \in Collections :
          /\ Cache(c).some => Cache(c)'.some
          /\ Cache(c).some /\ (\A k \in RefreshOps : last'.op # k.op)
                 /\ last'.op # "CopickRun.refresh"
                => \A k \in 1..Len(trace') : trace'[k] # QueryName(c)]_vars

\* The last two operations were the same successful lookup of lookup k, both
\* returning an object.
SameLookupTwice(k) ==
    /\ last.op = k.op
    /\ last'.op = k.op
    /\ last'.args = last.args
    /\ last.result = "ok" /\ last.ret # <<>>
    /\ last'.result = "ok" /\ last'.ret # <<>>

\* C35 (as stated): two successful get_run calls for one name, and two
\* successful get_voxel_spacing calls for one voxel size, return the same
\* object.
C35_SameObjectEveryLookup ==
    [][\A k \in RandomAccess : SameLookupTwice(k) => last'.ret = last.ret]_vars

\* C35 (amended): on a populated cache a successful get_run or
\* get_voxel_spacing returns an object of the cache, the same one in two
\* calls for one key; on an unpopulated cache it returns a new object that
\* is in no cache, another one in every call.
C35_SameObjectWhenPopulated ==
    [][\A k \in RandomAccess :
          (last'.op = k.op /\ last'.result = "ok" /\ last'.ret # <<>>)
          => IF Cache(k.c).some
             THEN /\ \E i \in 1..Len(Cache(k.c)'.list) : Cache(k.c)'.list[i] = last'.ret[1]
                  /\ SameLookupTwice(k) => last'.ret = last.ret
             ELSE /\ last'.ret[1].id > nextId[k.c]
                  /\ ~Cache(k.c)'.some
                  /\ SameLookupTwice(k) => last'.ret # last.ret]_vars

\* C35 witness: get_run returned a Run of the populated runs cache.
C35_Witness ==
    /\ last.op = "get_run"
    /\ last.result = "ok"
    /\ last.ret # <<>>
    /\ _runs.some
    /\ trace = <<>>

\* C36 (as stated): new_picks never calls store() for an identity key that
\* the backend holds at the time of the call.
C36_NoStoreOfHeldKey ==
    [][last'.op = "new_picks" /\ PersistCalled'
       => ~Holds("picks", ReqKey("new_picks", last'.args))]_vars

\* C36 (amended): new_picks checks the key against the caller's own view, the
\* populated picks cache or else the listing it loads: it calls store() for
\* no key of that view, and on a populated cache it calls store() for every
\* valid key the cache lacks, whether the backend holds the key or not.
C36_UniqueInOwnView ==
    [][last'.op = "new_picks" =>
          LET key == ReqKey("new_picks", last'.args)
              cached == \E i \in 1..Len(_picks.list) : _picks.list[i].meta = key
          IN /\ PersistCalled' =>
                   IF _picks.some THEN ~cached ELSE ~Holds("picks", key)
             /\ (_picks.some /\ ~cached /\ PassesValidation("new_picks", last'.args))
                   => PersistCalled']_vars

\* C36 witness: new_picks called store() on a stale cache: the backend holds a
\* record, written by the other caller, that the populated cache lacks.
C36_Witness ==
    /\ last.op = "new_picks"
    /\ PersistCalled
    /\ _picks.some
    /\ \E k \in 1..Len(backend["picks"]) :
          \A i \in 1..Len(_picks.list) : _picks.list[i].meta # backend["picks"][k]

\* The runs of the given name that the runs cache holds.
RunsNamed(name) == {i \in 1..Len(_runs.list) : _runs.list[i].meta.name = name}

\* Both threads call new_run with the same name.
SameNewRun ==
    /\ \A t \in Threads : threads[t].op = "new_run"
    /\ threads[1].name = threads[2].name

\* C37: when two new_run(name) calls with the same name are interleaved at
\* the granularity of their steps, at most one of them succeeds and the runs
\* cache holds at most one run of that name.
C37_AtMostOneSucceeds ==
    SameNewRun =>
        /\ ~(\A t \in Threads : threads[t].result = "ok")
        /\ Cardinality(RunsNamed(threads[1].name)) <= 1

\* C37 as amended: new_run checks the name against the names of the list the
\* runs property returned to it.  A call goes on to the append exactly when
\* that list held no run of the name and is refused with ValueError when it
\* did; the cache holds two runs of one name only after both threads have
\* appended a run of that name.
C37_UniqueInReturnedList ==
    /\ \A t \in Threads :
          LET held == \E i \in 1..Len(threads[t].ret.list) :
                         threads[t].ret.list[i].meta.name = threads[t].name IN
          /\ threads[t].op = "new_run" /\ threads[t].at \in {"append", "ensure", "done"}
                => ~held
          /\ threads[t].result = "ValueError: already exists" => held
    /\ \A name \in RunNames :
          Cardinality(RunsNamed(name)) >= 2 =>
              /\ SameNewRun
              /\ threads[1].name = name
              /\ \A t \in Threads : threads[t].at \in {"ensure", "done", "raised"}

\* C37 witness: two interleaved new_run calls with one name both succeeded,
\* and the cache holds two runs of that name.
C37_Witness ==
    /\ SameNewRun
    /\ \A t \in Threads : threads[t].at = "done" /\ threads[t].result = "ok"
    /\ Cardinality(RunsNamed(threads[1].name)) = 2

\* Both threads read the runs property.
BothRead == \A t \in Threads : threads[t].op = "runs"

\* The metadata of the entities of a list, in order.
MetasOf(list) == [i \in 1..Len(list) |-> list[i].meta]

\* C38: when two first reads of the same unpopulated child collection are
\* interleaved, the backend query is issued at most once and both reads return
\* the same list object.
C38_SingleFlight ==
    BothRead =>
        /\ Queries("runs") <= 1
        /\ (\A t \in Threads : threads[t].at = "done") => threads[1].ret = threads[2].ret

\* C38 as amended: each of two interleaved first reads issues the query at
\* most once, so the query is issued at most twice; a read that has returned
\* has returned a populated list holding one entity per record of the backend,
\* and the cache is then populated with such a list too.
C38_OneQueryPerRead ==
    BothRead =>
        /\ Queries("runs") <= Cardinality({t \in Threads : threads[t].at # "idle"})
        /\ \A t \in Threads :
              threads[t].at = "done" =>
                  /\ threads[t].ret.some
                  /\ MetasOf(threads[t].ret.list) = backend["runs"]
                  /\ _runs.some
                  /\ MetasOf(_runs.list) = backend["runs"]

\* C38 witness: two interleaved first reads both issued the query and returned
\* two different lists, one of which the cache no longer holds.
C38_Witness ==
    /\ BothRead
    /\ \A t \in Threads : threads[t].at = "done"
    /\ Queries("runs") = 2
    /\ threads[1].ret # threads[2].ret
    /\ \E t \in Threads : threads[t].ret # _runs

\* C39: Run.refresh is all-or-nothing: when one of its four queries raises,
\* the four child caches of the Run are all as they were before the call.
C39_RunRefreshAllOrNothing ==
    [][last'.op = "CopickRun.refresh" /\ last'.result = "raise" =>
          UNCHANGED <<_voxel_spacings, _picks, _meshes, _segmentations>>]_vars

\* The creation operations of a Run, each with the collection it creates in.
RunCreations ==
    {[op |-> "new_voxel_spacing", c |-> "voxel_spacings"],
     [op |-> "new_picks", c |-> "picks"],
     [op |-> "new_mesh", c |-> "meshes"],
     [op |-> "new_segmentation", c |-> "segmentations"]}

\* The step left the cache of collection d as it was and made no query for it.
LeftAlone(d) ==
    /\ Cache(d)' = Cache(d)
    /\ \A i \in 1..Len(trace') : trace'[i] # QueryName(d)

\* C40: new_voxel_spacing, new_picks, new_mesh and new_segmentation, whether
\* they succeed or fail, change only the cache of the created kind, leave the
\* other three caches of the Run as they were and issue no query for them.
C40_CreationsIndependent ==
    [][\A k \in RunCreations :
          last'.op = k.op => \A d \in RunScope \ {k.c} : LeftAlone(d)]_vars

\* C40 as amended: the same, except that new_segmentation, once the name is
\* accepted, reads the voxel_spacings property: on an unpopulated
\* voxel_spacings cache it calls query_voxelspacings first and, unless that
\* raises, leaves the cache populated with one VoxelSpacing per record of the
\* backend; a populated voxel_spacings cache it leaves alone.
C40_CreationsFrame ==
    [][\A k \in RunCreations :
          last'.op = k.op =>
              \A d \in RunScope \ {k.c} :
                  IF /\ k.op = "new_segmentation"
                     /\ d = "voxel_spacings"
                     /\ ~_voxel_spacings.some
                     /\ last'.result # "ValueError: object name not found"
                  THEN /\ trace' # <<>>
                       /\ trace'[1] = "query_voxelspacings"
                       /\ \A i \in 2..Len(trace') : trace'[i] # "query_voxelspacings"
                       /\ \/ _voxel_spacings' = _voxel_spacings
                          \/ /\ _voxel_spacings'.some
                             /\ MetasOf(_voxel_spacings'.list) = backend["voxel_spacings"]
                  ELSE LeftAlone(d)]_vars

\* C40 witness: new_segmentation on a Run whose voxel spacings had not been
\* read created the Segmentation and left the voxel_spacings cache populated.
C40_Witness ==
    /\ last.op = "new_segmentation"
    /\ last.result = "ok"
    /\ trace[1] = "query_voxelspacings"
    /\ _voxel_spacings.some
    /\ _voxel_spacings.list # <<>>
    /\ _segmentations.some

=============================================================================
